---- MODULE Spec2Model ----
(***************************************************************************)
(* A model of accession.py: the provenance graph built by Analysis         *)
(* (make_tasks / get_or_make_file), the lineage searches (search_up /      *)
(* search_down) and the accessioning engine of Accession (accession_file,  *)
(* get_derived_from, accession_step, accession_steps).                     *)
(*                                                                         *)
(* Tasks and files are Python objects compared by identity; here a task is *)
(* its index in Analysis.tasks and a file its index in Analysis.files.     *)
(* None is 0.                                                              *)
(***************************************************************************)
EXTENDS Integers, Sequences, FiniteSets, TLC

VARIABLES
    metadata,       \* Analysis.metadata['calls'], flattened: the task entries in order
    unavailable,    \* locations the storage backend cannot resolve (blob.reload() raises)
    tasks,          \* Analysis.tasks (during make_tasks: the local list `tasks`)
    files,          \* Analysis.files
    bpc,            \* make_tasks: "outputs" | "inputs" | "done" | "failed"
    bi,             \* make_tasks: index of the task of the running loop
    bj,             \* get_or_make_files: index of the next (key, filename) pair
    bacc,           \* get_or_make_files: the local list `files`
    lookups,        \* backend calls issued so far: <<"md5sum" | "size", filename>>
    spc,            \* a lineage search: "idle" | "running" | "done" | the error raised
    sargs,          \* its arguments: direction, start task, task_name, filekey, inputs
    sstack,         \* its active generator frames, innermost last
    syielded,       \* the files it has yielded so far, in order
    portal,         \* the remote catalog: its records, by accession
    refused,        \* content hashes the remote refuses to create (409 Conflict)
    steps,          \* Accession.steps_and_params_json
    new_files,      \* Accession.new_files
    io_log,          \* the storage and catalog calls of the run, in order
    afcalls,        \* the accession_file invocations of the run, in order
    run,            \* which run of the engine this is
    run_start,      \* number of catalog records when the run began
    epc,            \* accession_steps: "step" | "file" | "submit" | "qc" | "done" | "failed"
    step_i,             \* accession_steps: index of the step
    file_i,             \* accession_step: index of the file in the nested loops
    qc_i,             \* accession_step: index of the quality metric
    cur_step_run,       \* accession_step: step_run
    cur_obj,            \* accession_step: obj
    cur_encode_file,    \* accession_step: encode_file
    accessioned_files,  \* accession_step: accessioned_files
    raised,            \* the exception that left accession_steps, "" when none
    history            \* how the earlier runs ended, oldest first

buildVars == <<metadata, unavailable, tasks, files, bpc, bi, bj, bacc, lookups>>
searchVars == <<spc, sargs, sstack, syielded>>

graphVars == <<metadata, unavailable, tasks, files, bpc, bi, bj, bacc>>
engineVars == <<portal, refused, steps, new_files, io_log, afcalls, run, run_start, epc,
                step_i, file_i, qc_i, cur_step_run, cur_obj, cur_encode_file,
                accessioned_files, raised, history>>

vars == <<buildVars, searchVars, engineVars>>

None == 0

(***************************************************************************)
(* Bounds and the input families.                                          *)
(***************************************************************************)
MaxTasks == 2

\* Tasks of a graph the lineage searches run on.
SearchTasks == 3

\* Depth of nested generator frames at which the interpreter gives up
\* (RecursionError); deeper than any acyclic graph of the model.
MaxDepth == SearchTasks + 2

\* The strings of the model that contain 'gs://'.
Locs ==
    {"gs://b/x.bam", "gs://b/y.bam", "gs://b/z.bam", "gs://b/w.bam", "gs://b/r.fq",
     "gs://b/qc.json", "gs://ref/mm10.fa"}

Str(s) == [kind |-> "str", s |-> s]
List(items) == [kind |-> "list", items |-> items]
Dict(items) == [kind |-> "dict", items |-> items]

\* Input/output descriptor trees of a task entry: a JSON object as the sequence
\* of its <<key, value>> members in document order.
Sections ==
    { << >>,
      << <<"bam", Str("gs://b/x.bam")>>, <<"nodup_bam", Str("gs://b/x.bam")>> >>,
      << <<"nodup_bam", List(<<Str("gs://b/y.bam"), List(<<Str("gs://b/x.bam")>>)>>)>>,
         <<"n", Str("4")>> >>,
      << <<"fastqs", List(<<Str("gs://b/r.fq"), Str("gs://b/r.fq")>>)>> >>,
      << <<"genome", Dict(<< <<"ref_fa", Str("gs://b/y.bam")>>, <<"name", Str("mm10")>> >>)>> >> }

\* The task name of the i-th entry (make_tasks never reads it).
CallName(i) == IF i % 2 = 1 THEN "align" ELSE "dedup"

CallEntries(i) ==
    { [name |-> CallName(i), inputs |-> sin, outputs |-> sout, docker |-> "img:v1"] :
        sin \in Sections, sout \in Sections }

RECURSIVE MetadataOfLen(_)
MetadataOfLen(n) ==
    IF n = 0 THEN { << >> }
    ELSE { Append(m, e) : m \in MetadataOfLen(n - 1), e \in CallEntries(n) }

Metadatas == UNION { MetadataOfLen(n) : n \in 1..MaxTasks }

(***************************************************************************)
(* Helpers on sequences.                                                   *)
(***************************************************************************)
Range(s) == { s[i] : i \in 1..Len(s) }

RECURSIVE Concat(_)
Concat(ss) == IF ss = << >> THEN << >> ELSE Head(ss) \o Concat(Tail(ss))

InSeq(x, s) == \E i \in 1..Len(s) : s[i] = x

(***************************************************************************)
(* GCBackend: md5sum and size of a location (a pure lookup).               *)
(***************************************************************************)
md5sum(filename) ==
    CASE filename = "gs://b/x.bam" -> "mx"
      [] filename = "gs://b/y.bam" -> "my"
      [] filename = "gs://b/z.bam" -> "my"
      [] filename = "gs://b/w.bam" -> "mw"
      [] filename = "gs://b/r.fq"  -> "mr"
      [] filename = "gs://b/qc.json" -> "mq"
      [] OTHER -> "mf"

size(filename) ==
    CASE filename = "gs://b/x.bam" -> 10
      [] filename = "gs://b/y.bam" -> 20
      [] OTHER -> 30

(***************************************************************************)
(* Analysis.extract_files: the 'gs://' strings of a nested value, in order.*)
(***************************************************************************)
RECURSIVE extract_files(_)
extract_files(outputs) ==
    IF outputs.kind = "str"
    THEN IF outputs.s \in Locs THEN << outputs.s >> ELSE << >>
    ELSE IF outputs.kind = "list"
    THEN Concat([ k \in 1..Len(outputs.items) |-> extract_files(outputs.items[k]) ])
    ELSE Concat([ k \in 1..Len(outputs.items) |-> extract_files(outputs.items[k][2]) ])

\* The (key, filename) pairs get_or_make_files hands to get_or_make_file, in order.
section_calls(section) ==
    Concat([ k \in 1..Len(section) |->
               LET fs == extract_files(section[k][2])
               IN  [ n \in 1..Len(fs) |-> <<section[k][1], fs[n]>> ] ])

(***************************************************************************)
(* Task.__init__ and GSFile.__init__.                                      *)
(***************************************************************************)
Task(task_name, task) ==
    [task_name |-> task_name, input_files |-> << >>, output_files |-> << >>,
     inputs |-> task.inputs, outputs |-> task.outputs, docker_image |-> task.docker]

GSFile(key, name, md5, sz, task, used_by_tasks) ==
    [filename |-> name, filekeys |-> <<key>>, task |-> task,
     used_by_tasks |-> IF used_by_tasks # None THEN <<used_by_tasks>> ELSE << >>,
     md5sum |-> md5, size |-> sz]

make_task(task_name, task) == Task(task_name, task)

(***************************************************************************)
(* Analysis.get_or_make_file on the file list fs: the index of the file    *)
(* returned and the file list afterwards.                                  *)
(***************************************************************************)
FileIndex(fs, filename) ==
    IF \E k \in 1..Len(fs) : fs[k].filename = filename
    THEN CHOOSE k \in 1..Len(fs) :
            /\ fs[k].filename = filename
            /\ \A h \in 1..(k - 1) : fs[h].filename # filename
    ELSE 0

\* get_or_make_file without the scan of lines 135-143: a file is always made.
get_or_make_file_always_makes(fs, key, filename, task, used_by_tasks) ==
    [file |-> Len(fs) + 1,
     files |-> Append(fs, GSFile(key, filename, md5sum(filename),
                                 size(filename), task, used_by_tasks))]

\* UpdateFound that forgets the task using the file.
UpdateFound_drops_consumer(file, key, used_by_tasks) ==
    [file EXCEPT !.filekeys = IF InSeq(key, @) THEN @ ELSE Append(@, key)]

UpdateFound(file, key, used_by_tasks) ==
    [file EXCEPT
       !.filekeys = IF InSeq(key, @) THEN @ ELSE Append(@, key),
       !.used_by_tasks = IF used_by_tasks # None /\ ~InSeq(used_by_tasks, @)
                         THEN Append(@, used_by_tasks) ELSE @]

\* get_or_make_file that scans self.files only for the output of a task.
get_or_make_file_misses_inputs(fs, key, filename, task, used_by_tasks) ==
    LET k == IF task = None THEN 0 ELSE FileIndex(fs, filename)
    IN  IF k # 0
        THEN [file |-> k, files |-> [fs EXCEPT ![k] = UpdateFound(@, key, used_by_tasks)]]
        ELSE [file |-> Len(fs) + 1,
              files |-> Append(fs, GSFile(key, filename, md5sum(filename),
                                          size(filename), task, used_by_tasks))]

\* get_or_make_file that sets the task of a file found to the task of the call,
\* None included.
get_or_make_file_overwrites_task(fs, key, filename, task, used_by_tasks) ==
    IF FileIndex(fs, filename) # 0
    THEN [file |-> FileIndex(fs, filename),
          files |-> [fs EXCEPT ![FileIndex(fs, filename)] =
                        [UpdateFound(@, key, used_by_tasks) EXCEPT !.task = task]]]
    ELSE [file |-> Len(fs) + 1,
          files |-> Append(fs, GSFile(key, filename, md5sum(filename),
                                      size(filename), task, used_by_tasks))]

\* get_or_make_file that gives a file found the task of the call.
get_or_make_file_reassigns_task(fs, key, filename, task, used_by_tasks) ==
    IF FileIndex(fs, filename) # 0
    THEN [file |-> FileIndex(fs, filename),
          files |-> [fs EXCEPT ![FileIndex(fs, filename)] =
                        [UpdateFound(@, key, used_by_tasks) EXCEPT
                            !.task = IF task # None THEN task ELSE @]]]
    ELSE [file |-> Len(fs) + 1,
          files |-> Append(fs, GSFile(key, filename, md5sum(filename),
                                      size(filename), task, used_by_tasks))]

get_or_make_file(fs, key, filename, task, used_by_tasks) ==
    LET k == FileIndex(fs, filename)
    IN  IF k # 0
        THEN [file |-> k, files |-> [fs EXCEPT ![k] = UpdateFound(@, key, used_by_tasks)]]
        ELSE [file |-> Len(fs) + 1,
              files |-> Append(fs, GSFile(key, filename, md5sum(filename),
                                          size(filename), task, used_by_tasks))]

NoSearch == [dir |-> "none", task |-> None, task_name |-> "", filekey |-> "", inputs |-> FALSE]

SearchIdle ==
    /\ spc = "idle"
    /\ sargs = NoSearch
    /\ sstack = << >>
    /\ syielded = << >>

\* A catalog record with no field set; NoRecord stands for None.
Blank ==
    [profile |-> "", accession |-> 0, status |-> "", alias |-> "", md5sum |-> "",
     output_type |-> "", file_format |-> "", assembly |-> "", dataset |-> "",
     step_run |-> 0, derived_from |-> << >>, file_size |-> 0,
     submitted_file_name |-> "", submitted_by |-> "", qc_type |-> "",
     quality_metric_of |-> 0, quality_metrics |-> {}, analysis_step_version |-> ""]

NoRecord == Blank

\* No Accession object exists.
EngineIdle ==
    /\ portal = << >>
    /\ refused = {}
    /\ steps = << >>
    /\ new_files = << >>
    /\ io_log = << >>
    /\ afcalls = << >>
    /\ run = 0
    /\ run_start = 0
    /\ epc = "none"
    /\ step_i = 0
    /\ file_i = 0
    /\ qc_i = 0
    /\ cur_step_run = NoRecord
    /\ cur_obj = NoRecord
    /\ cur_encode_file = NoRecord
    /\ accessioned_files = << >>
    /\ raised = ""
    /\ history = << >>

(***************************************************************************)
(* Analysis.make_tasks, one get_or_make_file call per step.                *)
(***************************************************************************)
BuildInit ==
    /\ metadata \in Metadatas
    /\ unavailable \in { {}, {"gs://b/y.bam"} }
    /\ tasks = [ k \in 1..Len(metadata) |-> make_task(metadata[k].name, metadata[k]) ]
    /\ files = << >>
    /\ bpc = "outputs"
    /\ bi = 1
    /\ bj = 1
    /\ bacc = << >>
    /\ lookups = << >>
    /\ SearchIdle
    /\ EngineIdle

CurrentCalls ==
    IF bpc = "outputs" THEN section_calls(tasks[bi].outputs)
    ELSE section_calls(tasks[bi].inputs)

\* One iteration of the loop of get_or_make_files.
make_file ==
    /\ bpc \in {"outputs", "inputs"}
    /\ bj <= Len(CurrentCalls)
    /\ LET key == CurrentCalls[bj][1]
           filename == CurrentCalls[bj][2]
           found == FileIndex(files, filename) # 0
           r == get_or_make_file(files, key, filename,
                                 IF bpc = "outputs" THEN bi ELSE None,
                                 IF bpc = "inputs" THEN bi ELSE None)
       IN  /\ found \/ filename \notin unavailable
           /\ files' = r.files
           /\ bacc' = Append(bacc, r.file)
           /\ lookups' = IF found THEN lookups
                         ELSE lookups \o << <<"md5sum", filename>>, <<"size", filename>> >>
    /\ bj' = bj + 1
    /\ UNCHANGED <<metadata, unavailable, tasks, bpc, bi, searchVars, engineVars>>

\* backend.md5sum raises for a location it cannot resolve: make_tasks is left.
lookup_fails ==
    /\ bpc \in {"outputs", "inputs"}
    /\ bj <= Len(CurrentCalls)
    /\ FileIndex(files, CurrentCalls[bj][2]) = 0
    /\ CurrentCalls[bj][2] \in unavailable
    /\ bpc' = "failed"
    /\ lookups' = Append(lookups, <<"md5sum", CurrentCalls[bj][2]>>)
    /\ UNCHANGED <<metadata, unavailable, tasks, files, bi, bj, bacc, searchVars, engineVars>>

\* get_or_make_files returns: task.output_files = ... (line 108), then the next task.
assign_output_files ==
    /\ bpc = "outputs"
    /\ bj > Len(CurrentCalls)
    /\ tasks' = [tasks EXCEPT ![bi].output_files = bacc]
    /\ bacc' = << >>
    /\ bj' = 1
    /\ IF bi < Len(tasks) THEN bi' = bi + 1 /\ bpc' = bpc
                          ELSE bi' = 1 /\ bpc' = "inputs"
    /\ UNCHANGED <<metadata, unavailable, files, lookups, searchVars, engineVars>>

\* task.input_files = ... (line 112), then the next task or the return.
assign_input_files ==
    /\ bpc = "inputs"
    /\ bj > Len(CurrentCalls)
    /\ tasks' = [tasks EXCEPT ![bi].input_files = bacc]
    /\ bacc' = << >>
    /\ bj' = 1
    /\ IF bi < Len(tasks) THEN bi' = bi + 1 /\ bpc' = bpc
                          ELSE bi' = bi /\ bpc' = "done"
    /\ UNCHANGED <<metadata, unavailable, files, lookups, searchVars, engineVars>>

BuildNext ==
    \/ make_file
    \/ lookup_fails
    \/ assign_output_files
    \/ assign_input_files

SpecBuild == BuildInit /\ [][BuildNext]_vars

(***************************************************************************)
(* Analysis.make_tasks as a whole: the graph of a run metadata.            *)
(***************************************************************************)
RECURSIVE get_or_make_files(_, _, _, _)
get_or_make_files(fs, pairs, task, used_by_tasks) ==
    IF pairs = << >> THEN [out |-> << >>, files |-> fs]
    ELSE LET r == get_or_make_file(fs, Head(pairs)[1], Head(pairs)[2], task, used_by_tasks)
             rest == get_or_make_files(r.files, Tail(pairs), task, used_by_tasks)
         IN  [out |-> <<r.file>> \o rest.out, files |-> rest.files]

RECURSIVE OutputPass(_, _, _)
OutputPass(ts, fs, i) ==
    IF i > Len(ts) THEN [tasks |-> ts, files |-> fs]
    ELSE LET r == get_or_make_files(fs, section_calls(ts[i].outputs), i, None)
         IN  OutputPass([ts EXCEPT ![i].output_files = r.out], r.files, i + 1)

RECURSIVE InputPass(_, _, _)
InputPass(ts, fs, i) ==
    IF i > Len(ts) THEN [tasks |-> ts, files |-> fs]
    ELSE LET r == get_or_make_files(fs, section_calls(ts[i].inputs), None, i)
         IN  InputPass([ts EXCEPT ![i].input_files = r.out], r.files, i + 1)

make_tasks(md) ==
    LET ts == [ k \in 1..Len(md) |-> make_task(md[k].name, md[k]) ]
        o == OutputPass(ts, << >>, 1)
    IN  InputPass(o.tasks, o.files, 1)

\* The backend calls of make_tasks: md5sum and size for each file made (lines 142-143).
build_lookups(fs) ==
    Concat([ k \in 1..Len(fs) |-> << <<"md5sum", fs[k].filename>>, <<"size", fs[k].filename>> >> ])

\* The state make_tasks leaves for the metadata md.
Built(md) ==
    /\ metadata = md
    /\ unavailable = {}
    /\ tasks = make_tasks(md).tasks
    /\ files = make_tasks(md).files
    /\ bpc = "done"
    /\ bi = Len(md)
    /\ bj = 1
    /\ bacc = << >>
    /\ lookups = build_lookups(make_tasks(md).files)

(***************************************************************************)
(* Analysis.search_up and Analysis.search_down: recursive generators, run  *)
(* here frame by frame.  A frame is the task of one call and the tasks its *)
(* for loop has still to visit (a Python set: any order).                  *)
(***************************************************************************)
TaskShapes ==
    { [name |-> "align", docker |-> "img:v1",
       inputs  |-> << <<"fastqs", List(<<Str("gs://b/r.fq")>>)>> >>,
       outputs |-> << <<"bam", Str("gs://b/x.bam")>> >>],
      [name |-> "dedup", docker |-> "img:v1",
       inputs  |-> << <<"bam", Str("gs://b/x.bam")>> >>,
       outputs |-> << <<"nodup_bam", Str("gs://b/y.bam")>>, <<"bam", Str("gs://b/y.bam")>> >>],
      [name |-> "align", docker |-> "img:v1",
       inputs  |-> << <<"nodup_bam", Str("gs://b/y.bam")>> >>,
       outputs |-> << <<"bam", Str("gs://b/x.bam")>> >>],
      [name |-> "xcor", docker |-> "img:v1",
       inputs  |-> << <<"bam", List(<<Str("gs://b/x.bam"), Str("gs://b/y.bam")>>)>> >>,
       outputs |-> << >>],
      [name |-> "dedup", docker |-> "img:v1",
       inputs  |-> << <<"bam", List(<<Str("gs://b/x.bam"), Str("gs://b/y.bam")>>)>> >>,
       outputs |-> << <<"nodup_bam", Str("gs://b/z.bam")>> >>] }

RECURSIVE GraphsOfLen(_)
GraphsOfLen(n) ==
    IF n = 0 THEN { << >> }
    ELSE { Append(m, e) : m \in GraphsOfLen(n - 1), e \in TaskShapes }

SearchMetadatas == UNION { GraphsOfLen(n) : n \in 1..SearchTasks }

TaskNames == {"align", "dedup"}
FileKeys == {"bam", "nodup_bam"}

\* matching_files without the test `filekey in file.filekeys`.
matching_files_any_key(dir, task, task_name, filekey, inputs) ==
    IF task_name = tasks[task].task_name
    THEN IF dir = "up" /\ inputs THEN tasks[task].input_files ELSE tasks[task].output_files
    ELSE << >>

\* The files a call yields itself: lines 206-214 and 222-225.
matching_files(dir, task, task_name, filekey, inputs) ==
    IF task_name = tasks[task].task_name
    THEN SelectSeq(IF dir = "up" /\ inputs THEN tasks[task].input_files
                                            ELSE tasks[task].output_files,
                   LAMBDA f : InSeq(filekey, files[f].filekeys))
    ELSE << >>

\* task_items that follows the first input file (the first output file) only.
task_items_first_file_only(dir, task) ==
    IF dir = "up"
    THEN { files[f].task : f \in Range(SubSeq(tasks[task].input_files, 1, 1)) }
    ELSE UNION { Range(files[f].used_by_tasks) :
                    f \in Range(SubSeq(tasks[task].output_files, 1, 1)) }

\* The set the for loop of a call iterates: line 215 and lines 226-228.
task_items(dir, task) ==
    IF dir = "up"
    THEN { files[f].task : f \in Range(tasks[task].input_files) }
    ELSE UNION { Range(files[f].used_by_tasks) : f \in Range(tasks[task].output_files) }

\* reduce(operator.concat, ...) of an empty sequence raises TypeError.
reduce_fails(dir, task) == dir = "down" /\ tasks[task].output_files = << >>

\* Entering the generator body for `task`.
EnterFrame(task) ==
    /\ syielded' = syielded \o matching_files(sargs'.dir, task, sargs'.task_name,
                                               sargs'.filekey, sargs'.inputs)
    /\ IF reduce_fails(sargs'.dir, task)
       THEN /\ spc' = "TypeError"
            /\ sstack' = sstack
       ELSE /\ spc' = "running"
            /\ sstack' = Append(sstack, [task |-> task, todo |-> task_items(sargs'.dir, task)])

SearchInit ==
    /\ \E md \in SearchMetadatas : Built(md)
    /\ SearchIdle
    /\ EngineIdle

search_up ==
    /\ spc = "idle"
    /\ \E task \in 1..Len(tasks), task_name \in TaskNames, filekey \in FileKeys,
          inputs \in BOOLEAN :
          /\ sargs' = [dir |-> "up", task |-> task, task_name |-> task_name,
                       filekey |-> filekey, inputs |-> inputs]
          /\ EnterFrame(task)
    /\ UNCHANGED <<buildVars, engineVars>>

search_down ==
    /\ spc = "idle"
    /\ \E task \in 1..Len(tasks), task_name \in TaskNames, filekey \in FileKeys :
          /\ sargs' = [dir |-> "down", task |-> task, task_name |-> task_name,
                       filekey |-> filekey, inputs |-> FALSE]
          /\ EnterFrame(task)
    /\ UNCHANGED <<buildVars, engineVars>>

\* `yield from self.search_up(task_item, ...)` for the next task_item.
search_recurse ==
    /\ spc = "running"
    /\ sstack # << >>
    /\ \E task_item \in sstack[Len(sstack)].todo :
          LET popped == [sstack EXCEPT ![Len(sstack)].todo = @ \ {task_item}]
          IN  /\ task_item # None
              /\ Len(sstack) < MaxDepth
              /\ sargs' = sargs
              /\ syielded' = syielded \o matching_files(sargs.dir, task_item, sargs.task_name,
                                                         sargs.filekey, sargs.inputs)
              /\ IF reduce_fails(sargs.dir, task_item)
                 THEN spc' = "TypeError" /\ sstack' = popped
                 ELSE /\ spc' = "running"
                      /\ sstack' = Append(popped, [task |-> task_item,
                                                    todo |-> task_items(sargs.dir, task_item)])
    /\ UNCHANGED <<buildVars, engineVars>>

\* `if task_item:` is false for a raw input's producer, None.
search_skip_none ==
    /\ spc = "running"
    /\ sstack # << >>
    /\ None \in sstack[Len(sstack)].todo
    /\ sstack' = [sstack EXCEPT ![Len(sstack)].todo = @ \ {None}]
    /\ UNCHANGED <<buildVars, engineVars, spc, sargs, syielded>>

\* The interpreter's recursion limit is hit.
search_overflow ==
    /\ spc = "running"
    /\ sstack # << >>
    /\ Len(sstack) >= MaxDepth
    /\ sstack[Len(sstack)].todo \ {None} # {}
    /\ spc' = "RecursionError"
    /\ UNCHANGED <<buildVars, engineVars, sargs, sstack, syielded>>

\* The for loop of the innermost call is exhausted: the generator returns.
search_return ==
    /\ spc = "running"
    /\ sstack # << >>
    /\ sstack[Len(sstack)].todo = {}
    /\ sstack' = SubSeq(sstack, 1, Len(sstack) - 1)
    /\ spc' = IF Len(sstack) = 1 THEN "done" ELSE "running"
    /\ UNCHANGED <<buildVars, engineVars, sargs, syielded>>

SearchNext ==
    \/ search_up
    \/ search_down
    \/ search_recurse
    \/ search_skip_none
    \/ search_overflow
    \/ search_return

SpecSearch == SearchInit /\ [][SearchNext]_vars

(***************************************************************************)
(* The remote catalog behind encode_utils' Connection (search, get, post,  *)
(* patch).  A record is a mapping; its accession is its position in the    *)
(* catalog.  NoRecord stands for None.                                     *)
(***************************************************************************)
\* dict.update: the fields of props override those of rec.
Merge(rec, props) ==
    [f \in DOMAIN rec \cup DOMAIN props |-> IF f \in DOMAIN props THEN props[f] ELSE rec[f]]

Call(op, acc, s) == [op |-> op, acc |-> acc, s |-> s]

Log(w, c) == [w EXCEPT !.io_log = Append(@, c)]

\* Connection.search([('md5sum', md5), ('type', 'File')]): the file records with
\* that hash, in the catalog's order.
conn_search(w, md5) ==
    SelectSeq(w.portal, LAMBDA r : r.profile = "file" /\ r.md5sum = md5)

\* Connection.get(accession): the record with its computed list of attached
\* quality metrics.
conn_get(w, acc) ==
    [w.portal[acc] EXCEPT !.quality_metrics =
        { w.portal[q].qc_type : q \in { k \in 1..Len(w.portal) :
              w.portal[k].qc_type # "" /\ w.portal[k].quality_metric_of = acc } }]

\* A Connection.post that never looks for the holder of the alias.
conn_post_always_creates(w, payload, refuse) ==
    IF Merge(Blank, payload).profile = "file" /\ Merge(Blank, payload).md5sum \in refuse
    THEN [w |-> Log(w, Call("post", 0, payload.profile)), ret |-> NoRecord, err |-> "Conflict"]
    ELSE [w |-> [Log(w, Call("post", 0, payload.profile)) EXCEPT
                    !.portal = Append(@, [Merge(Blank, payload) EXCEPT
                                              !.accession = Len(w.portal) + 1])],
          ret |-> [Merge(Blank, payload) EXCEPT !.accession = Len(w.portal) + 1],
          err |-> ""]

\* Connection.post(payload): a step run whose alias is already on the catalog
\* resolves to the record that holds it; the remote refuses a file it takes for
\* a duplicate (409 Conflict); otherwise a record is created.
conn_post(w, payload, refuse) ==
    LET w1 == Log(w, Call("post", 0, payload.profile))
        full == Merge(Blank, payload)
        holders == SelectSeq(w.portal, LAMBDA r : /\ full.profile = "analysis_step_runs"
                                                  /\ r.profile = full.profile
                                                  /\ r.alias = full.alias)
        rec == [full EXCEPT !.accession = Len(w.portal) + 1]
    IN  IF Len(holders) > 0
        THEN [w |-> w1, ret |-> holders[1], err |-> ""]
        ELSE IF full.profile = "file" /\ full.md5sum \in refuse
        THEN [w |-> w1, ret |-> NoRecord, err |-> "Conflict"]
        ELSE [w |-> [w1 EXCEPT !.portal = Append(@, rec)], ret |-> rec, err |-> ""]

\* Connection.patch(properties): the record named in the properties is updated.
conn_patch(w, acc, new_properties) ==
    LET rec == [Merge(w.portal[acc], new_properties) EXCEPT !.accession = acc]
    IN  [w |-> [Log(w, Call("patch", acc, "")) EXCEPT !.portal[acc] = rec], ret |-> rec]

(***************************************************************************)
(* Accession: lookups on the catalog.                                      *)
(***************************************************************************)
current_user == "/users/u1/"
lab_pi == "lab"

\* file.filename.split('gs://')[-1].replace('/', '-')
file_name(filename) ==
    CASE filename = "gs://b/x.bam" -> "b-x.bam"
      [] filename = "gs://b/y.bam" -> "b-y.bam"
      [] filename = "gs://b/z.bam" -> "b-z.bam"
      [] filename = "gs://b/w.bam" -> "b-w.bam"
      [] filename = "gs://b/r.fq" -> "b-r.fq"
      [] filename = "gs://b/qc.json" -> "b-qc.json"
      [] OTHER -> "ref-mm10.fa"

\* tempfile.NamedTemporaryFile(delete=False).name
local_path(filename) == "/tmp/" \o file_name(filename)

file_at_portal(w, filename) ==
    LET md5 == md5sum(filename)
        w1 == Log([w EXCEPT !.lookups = Append(@, <<"md5sum", filename>>)],
                  Call("search", 0, md5))
        hits == conn_search(w, md5)
    IN  IF Len(hits) > 0
        THEN [w |-> Log(w1, Call("get", hits[1].accession, "")),
              ret |-> conn_get(w, hits[1].accession)]
        ELSE [w |-> w1, ret |-> NoRecord]

patch_file(w, enc_file, new_properties) ==
    conn_patch(w, enc_file.accession, new_properties)

(***************************************************************************)
(* Accession.accession_file.                                               *)
(***************************************************************************)
\* post_and_patch without self.new_files.append (line 348).
post_and_patch_forgets_cache(w, posted, obj, submitted_file_path) ==
    IF posted.err # "" THEN [w |-> posted.w, ret |-> NoRecord, err |-> posted.err, obj |-> obj]
    ELSE [w |-> patch_file(posted.w, posted.ret, submitted_file_path).w,
          ret |-> patch_file(posted.w, posted.ret, submitted_file_path).ret,
          err |-> "", obj |-> obj]

\* post_and_patch that caches the record as posted, before the patch.
post_and_patch_caches_posted(w, posted, obj, submitted_file_path) ==
    IF posted.err # "" THEN [w |-> posted.w, ret |-> NoRecord, err |-> posted.err, obj |-> obj]
    ELSE [w |-> [patch_file(posted.w, posted.ret, submitted_file_path).w EXCEPT
                    !.new_files = Append(@, posted.ret)],
          ret |-> patch_file(posted.w, posted.ret, submitted_file_path).ret,
          err |-> "", obj |-> obj]

\* Lines 341-349, the branch of a file the catalog does not hold.  obj is the
\* candidate as the call leaves it (the dictionary is updated in place).
post_and_patch(w, posted, obj, submitted_file_path) ==
    IF posted.err # "" THEN [w |-> posted.w, ret |-> NoRecord, err |-> posted.err, obj |-> obj]
    ELSE LET patched == patch_file(posted.w, posted.ret, submitted_file_path)
         IN  [w |-> [patched.w EXCEPT !.new_files = Append(@, patched.ret)],
              ret |-> patched.ret, err |-> "", obj |-> obj]

\* Lines 350-359, the branch of a deleted or revoked record.
patch_existing(patched, obj) ==
    [w |-> [patched.w EXCEPT !.new_files = Append(@, patched.ret)],
     ret |-> patched.ret, err |-> "", obj |-> obj]

\* accession_found that takes every record found for deleted or revoked.
accession_found_always_patches(fe, enc_file, filename, refuse) ==
    IF fe.ret = NoRecord
    THEN post_and_patch(fe.w,
             conn_post(Log(fe.w, Call("download", 0, filename)),
                       Merge(enc_file, [submitted_file_name |-> local_path(filename)]),
                       refuse),
             Merge(enc_file, [submitted_file_name |-> local_path(filename)]),
             [submitted_file_name |-> filename])
    ELSE patch_existing(
             patch_file(fe.w, fe.ret,
                        Merge(enc_file, [submitted_file_name |-> filename,
                                         submitted_by |-> current_user])),
             Merge(enc_file, [submitted_file_name |-> filename,
                              submitted_by |-> current_user]))

\* accession_found that also caches a live record it found.
accession_found_caches_found(fe, enc_file, filename, refuse) ==
    IF fe.ret = NoRecord
    THEN post_and_patch(fe.w,
             conn_post(Log(fe.w, Call("download", 0, filename)),
                       Merge(enc_file, [submitted_file_name |-> local_path(filename)]),
                       refuse),
             Merge(enc_file, [submitted_file_name |-> local_path(filename)]),
             [submitted_file_name |-> filename])
    ELSE IF fe.ret.status \in {"deleted", "revoked"}
    THEN patch_existing(
             patch_file(fe.w, fe.ret,
                        Merge(enc_file, [submitted_file_name |-> filename,
                                         submitted_by |-> current_user])),
             Merge(enc_file, [submitted_file_name |-> filename,
                              submitted_by |-> current_user]))
    ELSE [w |-> [fe.w EXCEPT !.new_files = Append(@, fe.ret)],
          ret |-> fe.ret, err |-> "", obj |-> enc_file]

\* accession_found without the update of submitted_by (line 356).
accession_found_keeps_submitter(fe, enc_file, filename, refuse) ==
    IF fe.ret = NoRecord
    THEN post_and_patch(fe.w,
             conn_post(Log(fe.w, Call("download", 0, filename)),
                       Merge(enc_file, [submitted_file_name |-> local_path(filename)]),
                       refuse),
             Merge(enc_file, [submitted_file_name |-> local_path(filename)]),
             [submitted_file_name |-> filename])
    ELSE IF fe.ret.status \in {"deleted", "revoked"}
    THEN patch_existing(
             patch_file(fe.w, fe.ret, Merge(enc_file, [submitted_file_name |-> filename])),
             Merge(enc_file, [submitted_file_name |-> filename]))
    ELSE [w |-> fe.w, ret |-> fe.ret, err |-> "", obj |-> enc_file]

\* Lines 340-360 once the catalog has answered file_at_portal with fe.
accession_found(fe, enc_file, filename, refuse) ==
    IF fe.ret = NoRecord
    THEN post_and_patch(fe.w,
             conn_post(Log(fe.w, Call("download", 0, filename)),
                       Merge(enc_file, [submitted_file_name |-> local_path(filename)]),
                       refuse),
             Merge(enc_file, [submitted_file_name |-> local_path(filename)]),
             [submitted_file_name |-> filename])
    ELSE IF fe.ret.status \in {"deleted", "revoked"}
    THEN patch_existing(
             patch_file(fe.w, fe.ret,
                        Merge(enc_file, [submitted_file_name |-> filename,
                                         submitted_by |-> current_user])),
             Merge(enc_file, [submitted_file_name |-> filename,
                              submitted_by |-> current_user]))
    ELSE [w |-> fe.w, ret |-> fe.ret, err |-> "", obj |-> enc_file]

accession_file(w, enc_file, gs_file, refuse) ==
    accession_found(file_at_portal(w, files[gs_file].filename), enc_file,
                    files[gs_file].filename, refuse)

(***************************************************************************)
(* The set of files search_up yields (get_derived_from keeps them as a     *)
(* set), computed by the same recursion.                                   *)
(***************************************************************************)
RECURSIVE search_up_files(_, _, _, _, _)
search_up_files(task, task_name, filekey, inputs, depth) ==
    IF depth > MaxDepth THEN [files |-> {}, err |-> "RecursionError"]
    ELSE LET own == Range(matching_files("up", task, task_name, filekey, inputs))
             subs == { search_up_files(t, task_name, filekey, inputs, depth + 1) :
                         t \in task_items("up", task) \ {None} }
         IN  [files |-> own \cup UNION { r.files : r \in subs },
              err |-> IF \E r \in subs : r.err # "" THEN "RecursionError" ELSE ""]

\* A finite set of integers as the list of its elements (list(set(...)): the
\* order is the interpreter's; ascending here).
RECURSIVE SetToSeq(_)
SetToSeq(S) ==
    IF S = {} THEN << >>
    ELSE LET m == CHOOSE x \in S : \A y \in S : x <= y
         IN  <<m>> \o SetToSeq(S \ {m})

get_tasks(task_name) ==
    SelectSeq([ k \in 1..Len(tasks) |-> k ], LAMBDA t : tasks[t].task_name = task_name)

raw_fastqs ==
    SelectSeq([ k \in 1..Len(files) |-> k ],
              LAMBDA f : InSeq("fastqs", files[f].filekeys) /\ files[f].task = None)

\* files_at_portal that appends the records found to self.new_files.
RECURSIVE files_at_portal_fills_cache(_, _)
files_at_portal_fills_cache(w, gs_files) ==
    IF gs_files = << >> THEN [w |-> w, ret |-> << >>]
    ELSE LET r == file_at_portal(w, files[Head(gs_files)].filename)
             rest == files_at_portal_fills_cache(
                        IF r.ret = NoRecord THEN r.w
                        ELSE [r.w EXCEPT !.new_files = Append(@, r.ret)],
                        Tail(gs_files))
         IN  [w |-> rest.w, ret |-> <<r.ret>> \o rest.ret]

\* [self.file_at_portal(gs_file.filename) for gs_file in derived_from_files]
RECURSIVE files_at_portal(_, _)
files_at_portal(w, gs_files) ==
    IF gs_files = << >> THEN [w |-> w, ret |-> << >>]
    ELSE LET r == file_at_portal(w, files[Head(gs_files)].filename)
             rest == files_at_portal(r.w, Tail(gs_files))
         IN  [w |-> rest.w, ret |-> <<r.ret>> \o rest.ret]

reference(accession_id) == "/files/" \o ToString(accession_id) \o "/"

(***************************************************************************)
(* Accession.get_derived_from and get_derived_from_all.                    *)
(***************************************************************************)
\* matches without the test of output_type (lines 456-457).
matches_by_hash_only(gs_file, enc_file, output_type) ==
    files[gs_file].md5sum = enc_file.md5sum

matches(gs_file, enc_file, output_type) ==
    /\ files[gs_file].md5sum = enc_file.md5sum
    /\ ~(output_type # "" /\ output_type # enc_file.output_type)

\* Lines 448-468: the references of the ancestors found, or the error raised.
derived_from_accession_ids(found, looked, output_type) ==
    LET derived_from_files == SetToSeq(found.files)
        accessioned ==
            SelectSeq(looked.ret \o looked.w.new_files, LAMBDA x : x # NoRecord)
        ids == { accessioned[e].accession : e \in
                   { e \in 1..Len(accessioned) :
                       \E g \in found.files : matches(g, accessioned[e], output_type) } }
    IN  IF ids = {}
        THEN [w |-> looked.w, ret |-> << >>, err |-> "MissingAll"]
        ELSE IF Cardinality(ids) # Len(derived_from_files)
        THEN [w |-> looked.w, ret |-> << >>, err |-> "MissingSome"]
        ELSE [w |-> looked.w, err |-> "",
              ret |-> [ k \in 1..Cardinality(ids) |-> reference(SetToSeq(ids)[k]) ]]

\* Lines 445-447: the catalog is asked for each ancestor found.
encode_files(w, found, output_type) ==
    IF found.err # ""
    THEN [w |-> w, ret |-> << >>, err |-> found.err]
    ELSE derived_from_accession_ids(found, files_at_portal(w, SetToSeq(found.files)),
                                    output_type)

get_derived_from(w, file, task_name, filekey, output_type, inputs) ==
    IF files[file].task = None
    THEN [w |-> w, ret |-> << >>, err |-> "AttributeError"]
    ELSE encode_files(w, search_up_files(files[file].task, task_name, filekey, inputs, 1),
                      output_type)

RECURSIVE get_derived_from_all(_, _, _)
\* flatten (lines 432-437): the lists of the ancestor specifications, joined.
flatten(r, rest) ==
    IF rest.err # "" THEN rest
    ELSE [w |-> rest.w, ret |-> r.ret \o rest.ret, err |-> ""]

\* The loop of lines 423-429 after the ancestor specification that gave r.
next_ancestor(r, file, ancestors) ==
    IF r.err # "" THEN r
    ELSE flatten(r, get_derived_from_all(r.w, file, ancestors))

get_derived_from_all(w, file, ancestors) ==
    IF ancestors = << >> THEN [w |-> w, ret |-> << >>, err |-> ""]
    ELSE next_ancestor(
             get_derived_from(w, file, Head(ancestors).derived_from_task,
                              Head(ancestors).derived_from_filekey,
                              Head(ancestors).derived_from_output_type,
                              Head(ancestors).derived_from_inputs),
             file, Tail(ancestors))

(***************************************************************************)
(* Accession.dataset, Accession.assembly, file_from_template and           *)
(* make_file_obj.                                                          *)
(***************************************************************************)
dataset(w) ==
    IF raw_fastqs = << >> THEN [w |-> w, ret |-> "", err |-> "IndexError"]
    ELSE LET r == file_at_portal(w, files[raw_fastqs[1]].filename)
         IN  IF r.ret = NoRecord THEN [w |-> r.w, ret |-> "", err |-> "AttributeError"]
             ELSE [w |-> r.w, ret |-> r.ret.dataset, err |-> ""]

\* The value of outputs.get('genome', {}).get('ref_fa', '') of a task.
ref_fa(task) ==
    LET outs == tasks[task].outputs
        g == SelectSeq(outs, LAMBDA e : e[1] = "genome")
        fa == IF g = << >> THEN << >>
              ELSE SelectSeq(g[1][2].items, LAMBDA e : e[1] = "ref_fa")
    IN  IF fa = << >> THEN "" ELSE fa[1][2].s

\* The first of ASSEMBLIES (line 30) contained in the reference's path.
assembly ==
    IF get_tasks("read_genome_tsv") = << >> THEN [ret |-> "", err |-> "IndexError"]
    ELSE [ret |-> IF ref_fa(get_tasks("read_genome_tsv")[1]) = "gs://ref/mm10.fa"
                  THEN "mm10" ELSE "",
          err |-> ""]

file_from_template(file, file_format, output_type, step_run_rec, derived_from, ds) ==
    [profile |-> "file",
     status |-> "uploading",
     alias |-> lab_pi \o ":" \o file_name(files[file].filename),
     file_format |-> file_format,
     output_type |-> output_type,
     assembly |-> assembly.ret,
     dataset |-> ds,
     step_run |-> step_run_rec.accession,
     derived_from |-> derived_from,
     file_size |-> files[file].size,
     md5sum |-> files[file].md5sum]

\* Lines 480-484 once the dataset ds is known.
template_with_dataset(d, ds, file, file_format, output_type, step_run_rec) ==
    IF ds.err # "" THEN [w |-> ds.w, ret |-> NoRecord, err |-> ds.err]
    ELSE IF assembly.err # "" THEN [w |-> ds.w, ret |-> NoRecord, err |-> assembly.err]
    ELSE [w |-> ds.w, err |-> "",
          ret |-> file_from_template(file, file_format, output_type, step_run_rec,
                                     d.ret, ds.ret)]

\* Lines 480-484 once the ancestors d are known.
template_with_derived_from(d, file, file_format, output_type, step_run_rec) ==
    IF d.err # "" THEN [w |-> d.w, ret |-> NoRecord, err |-> d.err]
    ELSE template_with_dataset(d, dataset(d.w), file, file_format, output_type, step_run_rec)

make_file_obj(w, file, file_format, output_type, step_run_rec, derived_from_files) ==
    template_with_derived_from(get_derived_from_all(w, file, derived_from_files),
                               file, file_format, output_type, step_run_rec)

(***************************************************************************)
(* Accession.get_or_make_step_run and the flagstat quality-metric plugin.  *)
(***************************************************************************)
QC_MAP ==
    [cross_correlation |-> "attach_cross_correlation_qc_to",
     samtools_flagstat |-> "attach_flagstat_qc_to",
     idr |-> "attach_idr_qc_to"]

\* docker_image.split(':')[1]
docker_tag(docker_image) ==
    CASE docker_image = "img:v1" -> "v1"
      [] OTHER -> ""

get_or_make_step_run(w, lab_prefix, run_name, step_version, task_name, refuse) ==
    IF get_tasks(task_name) = << >>
    THEN [w |-> w, ret |-> NoRecord, err |-> "IndexError"]
    ELSE IF tasks[get_tasks(task_name)[1]].docker_image = ""
    THEN [w |-> w, ret |-> NoRecord, err |-> "AttributeError"]
    ELSE IF docker_tag(tasks[get_tasks(task_name)[1]].docker_image) = ""
    THEN [w |-> w, ret |-> NoRecord, err |-> "IndexError"]
    ELSE conn_post(w,
            [profile |-> "analysis_step_runs",
             alias |-> lab_prefix \o ":" \o run_name \o "-"
                         \o docker_tag(tasks[get_tasks(task_name)[1]].docker_image),
             status |-> "released",
             analysis_step_version |-> step_version],
            refuse)

get_files(filekey) ==
    SelectSeq([ k \in 1..Len(files) |-> k ], LAMBDA f : InSeq(filekey, files[f].filekeys))

\* attach_flagstat_qc_to without the early return of lines 529-532.
attach_flagstat_qc_to_always_posts(w, encode_bam_file, gs_file, refuse) ==
    IF get_files("qc_json") = << >>
    THEN [w |-> w, ret |-> NoRecord, err |-> "IndexError"]
    ELSE conn_post(Log(w, Call("read", 0, files[get_files("qc_json")[1]].filename)),
            [profile |-> "samtools-flagstats-quality-metric",
             qc_type |-> "SamtoolsFlagstatsQualityMetric",
             step_run |-> encode_bam_file.step_run,
             quality_metric_of |-> encode_bam_file.accession,
             status |-> "released"],
            refuse)

attach_flagstat_qc_to(w, encode_bam_file, gs_file, refuse) ==
    IF "SamtoolsFlagstatsQualityMetric" \in encode_bam_file.quality_metrics
    THEN [w |-> w, ret |-> NoRecord, err |-> ""]
    ELSE IF get_files("qc_json") = << >>
    THEN [w |-> w, ret |-> NoRecord, err |-> "IndexError"]
    ELSE conn_post(Log(w, Call("read", 0, files[get_files("qc_json")[1]].filename)),
            [profile |-> "samtools-flagstats-quality-metric",
             qc_type |-> "SamtoolsFlagstatsQualityMetric",
             step_run |-> encode_bam_file.step_run,
             quality_metric_of |-> encode_bam_file.accession,
             status |-> "released"],
            refuse)

(***************************************************************************)
(* Accession.accession_step and accession_steps, one call of the loop body *)
(* per step.                                                               *)
(***************************************************************************)
MaxRuns == 2

World == [portal |-> portal, new_files |-> new_files, io_log |-> io_log, lookups |-> lookups]

SetWorld(w) ==
    /\ portal' = w.portal
    /\ new_files' = w.new_files
    /\ io_log' = w.io_log
    /\ lookups' = w.lookups

\* work_list with the loop over the role-keys outside the loop over the tasks.
work_list_by_role_key(single_step_params) ==
    LET ts == get_tasks(single_step_params.wdl_task_name)
    IN  Concat([ p \in 1..Len(single_step_params.wdl_files) |->
          Concat([ t \in 1..Len(ts) |->
            LET fs == SelectSeq(tasks[ts[t]].output_files,
                        LAMBDA f : InSeq(single_step_params.wdl_files[p].filekey,
                                         files[f].filekeys))
            IN  [ k \in 1..Len(fs) |-> [task |-> ts[t], params |-> p, file |-> fs[k]] ] ]) ])

\* The (task, file_params, wdl_file) of the three nested loops, in their order.
work_list(single_step_params) ==
    LET ts == get_tasks(single_step_params.wdl_task_name)
    IN  Concat([ t \in 1..Len(ts) |->
          Concat([ p \in 1..Len(single_step_params.wdl_files) |->
            LET fs == SelectSeq(tasks[ts[t]].output_files,
                        LAMBDA f : InSeq(single_step_params.wdl_files[p].filekey,
                                         files[f].filekeys))
            IN  [ k \in 1..Len(fs) |-> [task |-> ts[t], params |-> p, file |-> fs[k]] ] ]) ])

CurrentWork == work_list(steps[step_i])[file_i]
CurrentParams == steps[step_i].wdl_files[CurrentWork.params]

\* The except clause without the test of possible_duplicate.
swallowed_any_conflict(e, file_params) ==
    \/ e = "Conflict"
    \/ e = "MissingAll"

\* The except clause testing for 'Missing' instead of 'Missing all of the derived_from'.
swallowed_any_missing(e, file_params) ==
    \/ e = "Conflict" /\ file_params.possible_duplicate
    \/ e \in {"MissingAll", "MissingSome"}

\* The except clause of lines 643-649: is the exception swallowed?
swallowed(e, file_params) ==
    \/ e = "Conflict" /\ file_params.possible_duplicate
    \/ e = "MissingAll"

Raise(e) ==
    /\ epc' = "failed"
    /\ raised' = e

\* Lines 619-624.
accession_step ==
    /\ epc = "step"
    /\ step_i <= Len(steps)
    /\ \E r \in { get_or_make_step_run(World, lab_pi, steps[step_i].dcc_step_run,
                                       steps[step_i].dcc_step_version,
                                       steps[step_i].wdl_task_name, refused) } :
           /\ SetWorld(r.w)
           /\ cur_step_run' = r.ret
           /\ IF r.err # "" THEN Raise(r.err) ELSE epc' = "file" /\ raised' = raised
    /\ file_i' = 1
    /\ accessioned_files' = << >>
    /\ UNCHANGED <<graphVars, searchVars, history, refused, steps, afcalls, run, run_start,
                   step_i, qc_i, cur_obj, cur_encode_file>>

\* Lines 636-641 under the except clause.
make_file_obj_step ==
    /\ epc = "file"
    /\ file_i <= Len(work_list(steps[step_i]))
    /\ \E fp \in { CurrentParams } :
       \E r \in { make_file_obj(World, CurrentWork.file, fp.file_format, fp.output_type,
                                cur_step_run, fp.derived_from_files) } :
           /\ SetWorld(r.w)
           /\ IF r.err = ""
              THEN /\ cur_obj' = r.ret
                   /\ epc' = "submit"
                   /\ UNCHANGED <<file_i, raised>>
              ELSE IF swallowed(r.err, fp)
              THEN /\ file_i' = file_i + 1
                   /\ UNCHANGED <<cur_obj, epc, raised>>
              ELSE /\ Raise(r.err)
                   /\ UNCHANGED <<cur_obj, file_i>>
    /\ UNCHANGED <<graphVars, searchVars, history, refused, steps, afcalls, run, run_start,
                   step_i, qc_i, cur_step_run, cur_encode_file, accessioned_files>>

\* Line 642 under the except clause.
accession_file_step ==
    /\ epc = "submit"
    /\ \E fp \in { CurrentParams } :
       \E r \in { accession_file(World, cur_obj, CurrentWork.file, refused) } :
           /\ SetWorld(r.w)
           /\ afcalls' = Append(afcalls,
                  [obj |-> cur_obj, file |-> CurrentWork.file, ret |-> r.ret, err |-> r.err,
                   first |-> Len(io_log) + 1, last |-> Len(r.w.io_log),
                   cached |-> Len(r.w.new_files) - Len(new_files)])
           /\ cur_obj' = r.obj
           /\ IF r.err = ""
              THEN /\ cur_encode_file' = r.ret
                   /\ epc' = "qc"
                   /\ qc_i' = 1
                   /\ UNCHANGED <<file_i, raised>>
              ELSE IF swallowed(r.err, fp)
              THEN /\ file_i' = file_i + 1
                   /\ epc' = "file"
                   /\ UNCHANGED <<cur_encode_file, qc_i, raised>>
              ELSE /\ Raise(r.err)
                   /\ UNCHANGED <<cur_encode_file, qc_i, file_i>>
    /\ UNCHANGED <<graphVars, searchVars, history, refused, steps, run, run_start,
                   step_i, cur_step_run, accessioned_files>>

\* attach_qc that hands the plugin the record accession_file returned, not
\* the record of conn.get (line 658).
attach_qc_with_returned_record ==
    /\ epc = "qc"
    /\ qc_i <= Len(CurrentParams.quality_metrics)
    /\ IF CurrentParams.quality_metrics[qc_i] \notin DOMAIN QC_MAP
       THEN Raise("KeyError") /\ UNCHANGED <<portal, new_files, io_log, lookups>>
       ELSE \E r \in { attach_flagstat_qc_to(
                          Log(World, Call("get", cur_encode_file.accession, "")),
                          cur_encode_file,
                          CurrentWork.file, refused) } :
                /\ SetWorld(r.w)
                /\ IF r.err # "" THEN Raise(r.err) ELSE UNCHANGED <<epc, raised>>
    /\ qc_i' = qc_i + 1
    /\ UNCHANGED <<graphVars, searchVars, history, refused, steps, afcalls, run, run_start,
                   step_i, file_i, cur_step_run, cur_obj, cur_encode_file,
                   accessioned_files>>

\* One iteration of the loop of lines 654-659.
attach_qc ==
    /\ epc = "qc"
    /\ qc_i <= Len(CurrentParams.quality_metrics)
    /\ IF CurrentParams.quality_metrics[qc_i] \notin DOMAIN QC_MAP
       THEN Raise("KeyError") /\ UNCHANGED <<portal, new_files, io_log, lookups>>
       ELSE \E r \in { attach_flagstat_qc_to(
                          Log(World, Call("get", cur_encode_file.accession, "")),
                          conn_get(World, cur_encode_file.accession),
                          CurrentWork.file, refused) } :
                /\ SetWorld(r.w)
                /\ IF r.err # "" THEN Raise(r.err) ELSE UNCHANGED <<epc, raised>>
    /\ qc_i' = qc_i + 1
    /\ UNCHANGED <<graphVars, searchVars, history, refused, steps, afcalls, run, run_start,
                   step_i, file_i, cur_step_run, cur_obj, cur_encode_file,
                   accessioned_files>>

\* Line 660, then the next file.
file_accessioned ==
    /\ epc = "qc"
    /\ qc_i > Len(CurrentParams.quality_metrics)
    /\ accessioned_files' = Append(accessioned_files, cur_encode_file)
    /\ file_i' = file_i + 1
    /\ epc' = "file"
    /\ UNCHANGED <<graphVars, lookups, searchVars, history, portal, refused, steps, new_files, io_log,
                   afcalls, run, run_start, step_i, qc_i, cur_step_run, cur_obj,
                   cur_encode_file, raised>>

\* Line 661: accession_step returns; accession_steps takes the next step.
accession_step_returns ==
    /\ epc = "file"
    /\ file_i > Len(work_list(steps[step_i]))
    /\ step_i' = step_i + 1
    /\ epc' = "step"
    /\ UNCHANGED <<graphVars, lookups, searchVars, history, portal, refused, steps, new_files, io_log,
                   afcalls, run, run_start, file_i, qc_i, cur_step_run, cur_obj,
                   cur_encode_file, accessioned_files, raised>>

\* Lines 663-665: the loop over the steps is exhausted.
accession_steps_returns ==
    /\ epc = "step"
    /\ step_i > Len(steps)
    /\ epc' = "done"
    /\ UNCHANGED <<graphVars, lookups, searchVars, history, portal, refused, steps, new_files, io_log,
                   afcalls, run, run_start, step_i, file_i, qc_i, cur_step_run, cur_obj,
                   cur_encode_file, accessioned_files, raised>>

\* The files the nested loops of all the steps visit, and the files of the run
\* that accession_file has returned a record for.
RECURSIVE WorkUpTo(_)
WorkUpTo(n) == IF n = 0 THEN 0 ELSE WorkUpTo(n - 1) + Len(work_list(steps[n]))

TotalWork == WorkUpTo(Len(steps))

Submitted == Cardinality({ k \in 1..Len(afcalls) : afcalls[k].err = "" })

\* run_again after a compensating delete of the records a failed run made.
run_again_after_rollback ==
    /\ epc \in {"done", "failed"}
    /\ run < MaxRuns
    /\ run' = run + 1
    /\ portal' = IF epc = "failed" THEN SubSeq(portal, 1, run_start) ELSE portal
    /\ run_start' = Len(portal')
    /\ new_files' = << >>
    /\ io_log' = << >>
    /\ afcalls' = << >>
    /\ epc' = "step"
    /\ step_i' = 1
    /\ file_i' = 1
    /\ qc_i' = 1
    /\ cur_step_run' = NoRecord
    /\ cur_obj' = NoRecord
    /\ cur_encode_file' = NoRecord
    /\ accessioned_files' = << >>
    /\ raised' = ""
    /\ history' = Append(history, [result |-> epc, raised |-> raised,
                                    skipped |-> TotalWork - Submitted])
    /\ lookups' = build_lookups(files)
    /\ UNCHANGED <<graphVars, searchVars, refused, steps>>

\* The program is started again on the same metadata and steps, against the
\* catalog as the previous run left it (lines 713-720); the new process builds
\* the graph again, so its backend calls start with those of make_tasks.
run_again ==
    /\ epc \in {"done", "failed"}
    /\ run < MaxRuns
    /\ run' = run + 1
    /\ run_start' = Len(portal)
    /\ new_files' = << >>
    /\ io_log' = << >>
    /\ afcalls' = << >>
    /\ epc' = "step"
    /\ step_i' = 1
    /\ file_i' = 1
    /\ qc_i' = 1
    /\ cur_step_run' = NoRecord
    /\ cur_obj' = NoRecord
    /\ cur_encode_file' = NoRecord
    /\ accessioned_files' = << >>
    /\ raised' = ""
    /\ history' = Append(history, [result |-> epc, raised |-> raised,
                                    skipped |-> TotalWork - Submitted])
    /\ lookups' = build_lookups(files)
    /\ UNCHANGED <<graphVars, searchVars, portal, refused, steps>>

Next ==
    \/ accession_step
    \/ make_file_obj_step
    \/ accession_file_step
    \/ attach_qc
    \/ file_accessioned
    \/ accession_step_returns
    \/ accession_steps_returns
    \/ run_again

(***************************************************************************)
(* The runs the engine is checked on: a pipeline of read_genome_tsv, align *)
(* and dedup (and variants of it), the steps that accession its outputs,   *)
(* and the catalog the run meets.                                          *)
(***************************************************************************)
T_genome ==
    [name |-> "read_genome_tsv", docker |-> "img:v1", inputs |-> << >>,
     outputs |-> << <<"genome", Dict(<< <<"ref_fa", Str("gs://ref/mm10.fa")>> >>)>> >>]

T_align(docker) ==
    [name |-> "align", docker |-> docker,
     inputs |-> << <<"fastqs", List(<<Str("gs://b/r.fq")>>)>> >>,
     outputs |-> << <<"bam", Str("gs://b/x.bam")>> >>]

\* x.bam under two role-keys: it is twice in the task's output list.
T_align2 ==
    [name |-> "align", docker |-> "img:v1",
     inputs |-> << <<"fastqs", List(<<Str("gs://b/r.fq")>>)>> >>,
     outputs |-> << <<"bam", Str("gs://b/x.bam")>>, <<"raw_bam", Str("gs://b/x.bam")>> >>]

T_dedup ==
    [name |-> "dedup", docker |-> "img:v1",
     inputs |-> << <<"bam", Str("gs://b/x.bam")>> >>,
     outputs |-> << <<"nodup_bam", Str("gs://b/y.bam")>> >>]

\* Two alignments under one role-key.
T_align_pair ==
    [name |-> "align", docker |-> "img:v1",
     inputs |-> << <<"fastqs", List(<<Str("gs://b/r.fq")>>)>> >>,
     outputs |-> << <<"bam", List(<<Str("gs://b/x.bam"), Str("gs://b/w.bam")>>)>> >>]

\* Two outputs with the same content hash.
T_dedup2 ==
    [name |-> "dedup", docker |-> "img:v1",
     inputs |-> << <<"bam", Str("gs://b/x.bam")>> >>,
     outputs |-> << <<"nodup_bam", List(<<Str("gs://b/y.bam"), Str("gs://b/z.bam")>>)>> >>]

\* Reaches align directly and through dedup.
T_merge ==
    [name |-> "merge", docker |-> "img:v1",
     inputs |-> << <<"bam", Str("gs://b/x.bam")>>, <<"nodup_bam", Str("gs://b/y.bam")>> >>,
     outputs |-> << <<"merged", Str("gs://b/w.bam")>> >>]

\* Two calls of align: the first lists its raw_bam before its bam.
T_scatter1 ==
    [name |-> "align", docker |-> "img:v1",
     inputs |-> << <<"fastqs", List(<<Str("gs://b/r.fq")>>)>> >>,
     outputs |-> << <<"raw_bam", Str("gs://b/x.bam")>>, <<"bam", Str("gs://b/y.bam")>> >>]

T_scatter2 ==
    [name |-> "align", docker |-> "img:v1",
     inputs |-> << <<"fastqs", List(<<Str("gs://b/r.fq")>>)>> >>,
     outputs |-> << <<"bam", Str("gs://b/w.bam")>> >>]

T_qc ==
    [name |-> "qc_report", docker |-> "img:v1",
     inputs |-> << <<"nodup_bam", Str("gs://b/y.bam")>> >>,
     outputs |-> << <<"qc_json", Str("gs://b/qc.json")>> >>]

G_plain == <<T_genome, T_align("img:v1"), T_dedup, T_qc>>
G_twokeys == <<T_genome, T_align2, T_dedup, T_qc>>
G_samehash == <<T_genome, T_align("img:v1"), T_dedup2, T_qc>>
G_diamond == <<T_genome, T_align("img:v1"), T_dedup, T_merge, T_qc>>
G_nogenome == <<T_align("img:v1"), T_dedup, T_qc>>
G_noqcjson == <<T_genome, T_align("img:v1"), T_dedup>>
G_nodocker == <<T_genome, T_align(""), T_dedup, T_qc>>
G_pair == <<T_genome, T_align_pair, T_dedup, T_qc>>
G_scatter == <<T_genome, T_scatter1, T_scatter2>>

Ancestor(task, filekey, output_type, inputs) ==
    [derived_from_task |-> task, derived_from_filekey |-> filekey,
     derived_from_output_type |-> output_type, derived_from_inputs |-> inputs]

AncestorVariants ==
    { << Ancestor("align", "bam", "", FALSE) >>,
      << Ancestor("align", "bam", "", FALSE), Ancestor("align", "raw_bam", "", FALSE) >>,
      << Ancestor("align", "bam", "", FALSE), Ancestor("align", "fastqs", "", TRUE) >>,
      << Ancestor("align", "bam", "alignments", FALSE) >>,
      << Ancestor("align", "bam", "optimal", FALSE) >>,
      << >> }

StepAlign(qcs) ==
    [dcc_step_run |-> "align-run", dcc_step_version |-> "/asv/1/", wdl_task_name |-> "align",
     wdl_files |-> << [filekey |-> "bam", file_format |-> "bam", output_type |-> "alignments",
                       derived_from_files |-> << Ancestor("align", "fastqs", "", TRUE) >>,
                       quality_metrics |-> qcs, possible_duplicate |-> FALSE] >>]

StepDedup(ancestors, dup) ==
    [dcc_step_run |-> "dedup-run", dcc_step_version |-> "/asv/2/", wdl_task_name |-> "dedup",
     wdl_files |-> << [filekey |-> "nodup_bam", file_format |-> "bam", output_type |-> "optimal",
                       derived_from_files |-> ancestors,
                       quality_metrics |-> << >>, possible_duplicate |-> dup] >>]

StepMerge ==
    [dcc_step_run |-> "merge-run", dcc_step_version |-> "/asv/3/", wdl_task_name |-> "merge",
     wdl_files |-> << [filekey |-> "merged", file_format |-> "bam", output_type |-> "merged",
                       derived_from_files |-> << Ancestor("align", "bam", "", FALSE) >>,
                       quality_metrics |-> << >>, possible_duplicate |-> FALSE] >>]

StepReport ==
    [dcc_step_run |-> "report-run", dcc_step_version |-> "/asv/4/", wdl_task_name |-> "qc_report",
     wdl_files |-> << [filekey |-> "qc_json", file_format |-> "json", output_type |-> "report",
                       derived_from_files |-> << Ancestor("dedup", "nodup_bam", "", FALSE) >>,
                       quality_metrics |-> << >>, possible_duplicate |-> FALSE] >>]

\* A step with two role-keys, bam declared before raw_bam.
StepScatter ==
    [dcc_step_run |-> "align-run", dcc_step_version |-> "/asv/1/", wdl_task_name |-> "align",
     wdl_files |-> << [filekey |-> "bam", file_format |-> "bam", output_type |-> "alignments",
                       derived_from_files |-> << Ancestor("align", "fastqs", "", TRUE) >>,
                       quality_metrics |-> << >>, possible_duplicate |-> FALSE],
                      [filekey |-> "raw_bam", file_format |-> "bam",
                       output_type |-> "unfiltered alignments",
                       derived_from_files |-> << Ancestor("align", "fastqs", "", TRUE) >>,
                       quality_metrics |-> << >>, possible_duplicate |-> FALSE] >>]

Scenarios ==
    { [md |-> g,
       steps |-> (IF fwd THEN <<StepAlign(<<"samtools_flagstat">>), StepDedup(a, dup)>>
                         ELSE <<StepDedup(a, dup), StepAlign(<<"samtools_flagstat">>)>>)
                 \o (IF g = G_diamond THEN <<StepMerge>> ELSE << >>)] :
        g \in {G_plain, G_twokeys, G_samehash, G_diamond},
        fwd \in BOOLEAN, dup \in BOOLEAN, a \in AncestorVariants }
    \cup
    { [md |-> g, steps |-> <<StepAlign(qcs), StepDedup(<< Ancestor("align", "bam", "", FALSE) >>, FALSE)>>] :
        g \in {G_plain, G_nogenome, G_noqcjson, G_nodocker},
        qcs \in { << >>, <<"samtools_flagstat">>, <<"unknown_metric">> } }
    \cup
    { [md |-> G_pair,
       steps |-> <<StepDedup(<< Ancestor("align", "bam", "", FALSE) >>, FALSE),
                   StepAlign(<< >>)>>],
      [md |-> G_samehash,
       steps |-> <<StepAlign(<< >>),
                   StepDedup(<< Ancestor("align", "bam", "", FALSE) >>, FALSE),
                   StepReport>>],
      [md |-> G_scatter, steps |-> <<StepScatter>>],
      [md |-> G_plain, steps |-> <<StepAlign(<<"samtools_flagstat", "samtools_flagstat">>)>>] }

FileRecord(status, location, output_type) ==
    Merge(Blank,
          [profile |-> "file", status |-> status,
           alias |-> lab_pi \o ":" \o file_name(location),
           md5sum |-> md5sum(location), output_type |-> output_type,
           dataset |-> "/experiments/e1/", submitted_file_name |-> location,
           submitted_by |-> "/users/u0/"])

\* The records a catalog of the model may hold when the run starts.
InitialCatalogs ==
    { [ k \in 1..Len(fq \o x \o y) |-> [(fq \o x \o y)[k] EXCEPT !.accession = k] ] :
        fq \in { << >>, << FileRecord("released", "gs://b/r.fq", "reads") >> },
        x \in { << >>,
                << FileRecord("released", "gs://b/x.bam", "alignments") >>,
                << FileRecord("deleted", "gs://b/x.bam", "alignments") >> },
        y \in { << >>,
                << FileRecord("released", "gs://b/y.bam", "optimal") >>,
                << FileRecord("revoked", "gs://b/y.bam", "optimal") >>,
                << FileRecord("released", "gs://b/z.bam", "conservative") >>,
                << FileRecord("revoked", "gs://b/y.bam", "optimal"),
                   FileRecord("released", "gs://b/z.bam", "conservative") >> } }

Init ==
    /\ \E sc \in Scenarios : Built(sc.md) /\ steps = sc.steps
    /\ SearchIdle
    /\ portal \in InitialCatalogs
    /\ refused \in { {}, {"mx"}, {"my"} }
    /\ new_files = << >>
    /\ io_log = << >>
    /\ afcalls = << >>
    /\ run = 1
    /\ run_start = Len(portal)
    /\ epc = "step"
    /\ step_i = 1
    /\ file_i = 1
    /\ qc_i = 1
    /\ cur_step_run = NoRecord
    /\ cur_obj = NoRecord
    /\ cur_encode_file = NoRecord
    /\ accessioned_files = << >>
    /\ raised = ""
    /\ history = << >>

Spec == Init /\ [][Next]_vars

(***************************************************************************)
(* accession_file called on its own: a caller holds a candidate for the    *)
(* current file and calls accession_file with it, again and again.         *)
(***************************************************************************)
MaxCalls == 2

\* The candidates a caller may hold for a file: file_from_template over the
\* parameters of its step.
Candidates(fp, file) ==
    { file_from_template(file, fp.file_format, fp.output_type,
                         [NoRecord EXCEPT !.accession = sr], d, "/experiments/e1/") :
        sr \in {0, 1}, d \in { << >>, << reference(1) >> } }

CallInit ==
    /\ \E g \in {G_plain, G_samehash} : Built(g)
    /\ SearchIdle
    /\ steps = <<StepAlign(<< >>), StepDedup(<< Ancestor("align", "bam", "", FALSE) >>, FALSE)>>
    /\ portal \in InitialCatalogs
    /\ refused \in { {}, {"mx"}, {"my"} }
    /\ new_files = << >>
    /\ io_log = << >>
    /\ afcalls = << >>
    /\ run = 1
    /\ run_start = Len(portal)
    /\ epc = "call"
    /\ step_i \in 1..Len(steps)
    /\ file_i \in 1..Len(work_list(steps[step_i]))
    /\ qc_i = 1
    /\ cur_step_run = NoRecord
    /\ cur_obj \in Candidates(CurrentParams, CurrentWork.file)
    /\ cur_encode_file = NoRecord
    /\ accessioned_files = << >>
    /\ raised = ""
    /\ history = << >>

\* encode_file = self.accession_file(obj, wdl_file) by a caller that keeps an
\* exception in raised and goes on.
accession_file_call ==
    /\ epc = "call"
    /\ Len(afcalls) < MaxCalls
    /\ \E r \in { accession_file(World, cur_obj, CurrentWork.file, refused) } :
           /\ SetWorld(r.w)
           /\ afcalls' = Append(afcalls,
                  [obj |-> cur_obj, file |-> CurrentWork.file, ret |-> r.ret, err |-> r.err,
                   first |-> Len(io_log) + 1, last |-> Len(r.w.io_log),
                   cached |-> Len(r.w.new_files) - Len(new_files)])
           /\ cur_obj' = r.obj
           /\ cur_encode_file' = r.ret
           /\ raised' = r.err
    /\ UNCHANGED <<graphVars, searchVars, history, refused, steps, run, run_start, epc,
                   step_i, file_i, qc_i, cur_step_run, accessioned_files>>

CallNext == accession_file_call

SpecAccessionFile == CallInit /\ [][CallNext]_vars

(***************************************************************************)
(* What the run metadata references.                                       *)
(***************************************************************************)
SectionLocs(section) ==
    UNION { Range(extract_files(section[k][2])) : k \in 1..Len(section) }

OutLocs(t) == SectionLocs(metadata[t].outputs)
InLocs(t) == SectionLocs(metadata[t].inputs)

ReferencedLocs == UNION { OutLocs(t) \cup InLocs(t) : t \in 1..Len(metadata) }

FilesAt(L) == { k \in 1..Len(files) : files[k].filename = L }

\* The first task, in metadata order, that lists L among its outputs.
FirstProducer(L) ==
    CHOOSE t \in 1..Len(metadata) :
        /\ L \in OutLocs(t)
        /\ \A u \in 1..(t - 1) : L \notin OutLocs(u)

(***************************************************************************)
(* C1: at no time do two artifacts share a location, and when make_tasks   *)
(* has returned the locations of the artifacts are exactly the locations   *)
(* referenced in the input and output trees of the tasks.                  *)
(***************************************************************************)
C1_OneArtifactPerLocation ==
    /\ \A a, b \in 1..Len(files) : files[a].filename = files[b].filename => a = b
    /\ bpc = "done" => { files[k].filename : k \in 1..Len(files) } = ReferencedLocs

\* A finished build in which one location is referenced by two tasks and
\* another location besides.
C1_Witness ==
    /\ bpc = "done"
    /\ Len(files) >= 2
    /\ \E t, u \in 1..Len(metadata) :
          t # u /\ (OutLocs(t) \cup InLocs(t)) \cap (OutLocs(u) \cup InLocs(u)) # {}

(***************************************************************************)
(* C2 as stated: for all tasks A, B and every location L that is an output *)
(* of A and an input of B, after the build there is one artifact for L, in *)
(* A's output list and B's input list, whose producer is A and whose       *)
(* consumers include B.                                                    *)
(***************************************************************************)
C2_SharedArtifact(A, B, L, producer) ==
    /\ Cardinality(FilesAt(L)) = 1
    /\ \A f \in FilesAt(L) :
          /\ InSeq(f, tasks[A].output_files)
          /\ InSeq(f, tasks[B].input_files)
          /\ files[f].task = producer
          /\ InSeq(B, files[f].used_by_tasks)

C2_Original ==
    bpc = "done" =>
        \A A, B \in 1..Len(metadata) : \A L \in OutLocs(A) \cap InLocs(B) :
            C2_SharedArtifact(A, B, L, A)

(***************************************************************************)
(* C2 amended: the same, with the producer being the first task in         *)
(* metadata order that lists L among its outputs (A itself when no earlier *)
(* task outputs L).                                                        *)
(***************************************************************************)
C2_ProducerIsFirstOutputter ==
    bpc = "done" =>
        \A A, B \in 1..Len(metadata) : \A L \in OutLocs(A) \cap InLocs(B) :
            C2_SharedArtifact(A, B, L, FirstProducer(L))

\* The consumer is listed before the only producer of the shared location.
C2_Witness ==
    /\ bpc = "done"
    /\ \E A, B \in 1..Len(metadata) : \E L \in OutLocs(A) \cap InLocs(B) :
          /\ B < A
          /\ FirstProducer(L) = A
          /\ \A f \in FilesAt(L) : files[f].task = A /\ InSeq(B, files[f].used_by_tasks)

(***************************************************************************)
(* C10: every file search_up or search_down has yielded so far carries the *)
(* role-key the search was asked for.                                      *)
(***************************************************************************)
C10_YieldedCarryKey ==
    \A k \in 1..Len(syielded) : InSeq(sargs.filekey, files[syielded[k]].filekeys)

\* A finished search that yielded a file after passing over an output of its
\* start task, which has the requested name, because that output lacks the key.
C10_Witness ==
    /\ spc = "done"
    /\ syielded # << >>
    /\ ~sargs.inputs
    /\ tasks[sargs.task].task_name = sargs.task_name
    /\ \E f \in Range(tasks[sargs.task].output_files) :
          ~InSeq(sargs.filekey, files[f].filekeys)

(***************************************************************************)
(* Calls of accession_file: the create and update calls among the catalog  *)
(* calls of the k-th recorded call.                                        *)
(***************************************************************************)
CallOps(k, ops) ==
    Cardinality({ c \in afcalls[k].first..afcalls[k].last : io_log[c].op \in ops })

Creates(k) == CallOps(k, {"post"})
Updates(k) == CallOps(k, {"patch"})

(***************************************************************************)
(* C3 as stated: of two calls of accession_file in a row with the same     *)
(* candidate and file, the second issues no create and no update and       *)
(* returns the record the catalog holds, and the two together issue        *)
(* exactly one create or update.                                           *)
(***************************************************************************)
C3_SecondCallReads(k) ==
    /\ Creates(k + 1) = 0
    /\ Updates(k + 1) = 0
    /\ afcalls[k + 1].err = ""
    /\ afcalls[k + 1].ret # NoRecord
    /\ afcalls[k + 1].ret.accession \in 1..Len(portal)
    /\ afcalls[k + 1].ret = conn_get(World, afcalls[k + 1].ret.accession)

C3_Original ==
    \A k \in 1..(Len(afcalls) - 1) :
        /\ C3_SecondCallReads(k)
        /\ Creates(k) + Updates(k) + Creates(k + 1) + Updates(k + 1) = 1

(***************************************************************************)
(* C3 amended: when the first of two calls in a row returned, the second   *)
(* issues no create and no update, adds nothing to the cache and returns   *)
(* the record the first returned, as the catalog holds it; the first call  *)
(* issues one create followed by one update when it made the record, one   *)
(* update and no create when it took over a deleted or revoked record, and *)
(* neither when the catalog held a live record of the hash.                *)
(***************************************************************************)
C3_OneSubmission ==
    \A k \in 1..(Len(afcalls) - 1) :
        afcalls[k].err = "" =>
            /\ C3_SecondCallReads(k)
            /\ afcalls[k + 1].cached = 0
            /\ afcalls[k + 1].ret.accession = afcalls[k].ret.accession
            /\ \/ Creates(k) = 1 /\ Updates(k) = 1 /\ afcalls[k].cached = 1
               \/ Creates(k) = 0 /\ Updates(k) = 1 /\ afcalls[k].cached = 1
               \/ Creates(k) = 0 /\ Updates(k) = 0 /\ afcalls[k].cached = 0

\* Two calls in a row, the first of which made the record.
C3_Witness ==
    /\ Len(afcalls) = 2
    /\ afcalls[1].err = ""
    /\ Creates(1) = 1
    /\ Len(portal) = run_start + 1
    /\ afcalls[2].ret.accession = Len(portal)

(***************************************************************************)
(* Runs of the engine: the records a run has added to the catalog and      *)
(* those it found when it began.                                           *)
(***************************************************************************)
NewRecords == { portal[k] : k \in (run_start + 1)..Len(portal) }
OldRecords == { portal[k] : k \in 1..run_start }

(***************************************************************************)
(* C4 as stated: a run of the engine after the first adds no record to the *)
(* catalog the first run left.                                             *)
(***************************************************************************)
C4_Original == run >= 2 => Len(portal) = run_start

(***************************************************************************)
(* C4 amended: a run after the first adds no step-run record, adds a file  *)
(* record only for a hash no record carried when it began, and adds no     *)
(* quality metric of a type the file already has; when the run before it   *)
(* ended normally without skipping a file, it adds no record at all.       *)
(***************************************************************************)
C4_NoSecondSubmission ==
    run >= 2 =>
        /\ \A r \in NewRecords : r.profile # "analysis_step_runs"
        /\ \A r \in NewRecords :
              r.profile = "file" => \A o \in OldRecords : o.md5sum # r.md5sum
        /\ \A r \in NewRecords :
              r.qc_type # "" =>
                  \A o \in OldRecords \cup NewRecords :
                      o.qc_type = r.qc_type /\ o.quality_metric_of = r.quality_metric_of
                          => o = r
        /\ history[run - 1].result = "done" /\ history[run - 1].skipped = 0
              => NewRecords = {}

\* A second run that ended after a first run that made a file record and its
\* quality metric and skipped nothing.
C4_Witness ==
    /\ run = 2
    /\ epc = "done"
    /\ history[1].result = "done"
    /\ history[1].skipped = 0
    /\ Len(afcalls) >= 2
    /\ \E q \in OldRecords : q.qc_type # "" /\ q.accession > 3

(***************************************************************************)
(* C5: every record an accession_file call of the run made or updated is   *)
(* in the cache new_files; and when y.bam (role nodup_bam, made by dedup   *)
(* from x.bam) is built with the ancestor spec (align, bam) after x.bam    *)
(* was accessioned in the run, make_file_obj returns a candidate whose     *)
(* derived_from is the reference of the record accession_file returned for *)
(* x.bam.                                                                  *)
(***************************************************************************)
C5_Cached ==
    \A k \in 1..Len(afcalls) :
        afcalls[k].err = "" /\ Creates(k) + Updates(k) > 0 =>
            \E n \in 1..Len(new_files) : new_files[n] = afcalls[k].ret

AccessionedEarlier(filename) ==
    { k \in 1..Len(afcalls) :
        afcalls[k].err = "" /\ files[afcalls[k].file].filename = filename }

C5_Case ==
    /\ epc = "file"
    /\ file_i <= Len(work_list(steps[step_i]))
    /\ files[CurrentWork.file].filename = "gs://b/y.bam"
    /\ tasks[CurrentWork.task].task_name = "dedup"
    /\ CurrentParams.filekey = "nodup_bam"
    /\ CurrentParams.derived_from_files = << Ancestor("align", "bam", "", FALSE) >>
    /\ AccessionedEarlier("gs://b/x.bam") # {}

C5_CacheVisible ==
    /\ []C5_Cached
    /\ [][make_file_obj_step /\ C5_Case =>
            /\ epc' = "submit"
            /\ \A k \in AccessionedEarlier("gs://b/x.bam") :
                  cur_obj'.derived_from = << reference(afcalls[k].ret.accession) >>]_vars

\* The candidate for y.bam names the record the run made for x.bam.
C5_Witness ==
    /\ epc = "submit"
    /\ files[CurrentWork.file].filename = "gs://b/y.bam"
    /\ CurrentParams.derived_from_files = << Ancestor("align", "bam", "", FALSE) >>
    /\ \E k \in AccessionedEarlier("gs://b/x.bam") :
          /\ Creates(k) = 1
          /\ afcalls[k].ret \in Range(new_files)
          /\ cur_obj.derived_from = << reference(afcalls[k].ret.accession) >>

(***************************************************************************)
(* The ancestor artifacts the specs of a candidate resolve to, and the     *)
(* records of the catalog and of the cache that match them.                *)
(***************************************************************************)
AncestorFiles(file, a) ==
    search_up_files(files[file].task, a.derived_from_task, a.derived_from_filekey,
                    a.derived_from_inputs, 1).files

ResolvedAncestors(file, ancestors) ==
    UNION { AncestorFiles(file, ancestors[k]) : k \in 1..Len(ancestors) }

Answers(gs) ==
    Range(SelectSeq(files_at_portal(World, SetToSeq(gs)).ret \o new_files,
                    LAMBDA x : x # NoRecord))

MatchedIds(file, ancestors) ==
    UNION { { r.accession :
                r \in { r \in Answers(AncestorFiles(file, ancestors[k])) :
                          \E g \in AncestorFiles(file, ancestors[k]) :
                              matches(g, r, ancestors[k].derived_from_output_type) } } :
            k \in 1..Len(ancestors) }

Resolution ==
    get_derived_from_all(World, CurrentWork.file, CurrentParams.derived_from_files)

Outcome(out, ids, n) ==
    IF ids = {} THEN out.err = "MissingAll"
    ELSE IF Cardinality(ids) < n THEN out.err = "MissingSome"
    ELSE out.err = "" /\ Range(out.ret) = { reference(a) : a \in ids }

(***************************************************************************)
(* C6: for a candidate with at least one ancestor spec, resolution fails   *)
(* with MissingAllDerivedFrom when no record matches over all the specs,   *)
(* fails with MissingSomeDerivedFrom when some records match but fewer     *)
(* than the resolved ancestor artifacts, and otherwise returns the         *)
(* references of the matched records and raises nothing.                   *)
(***************************************************************************)
C6_ThreeOutcomes ==
    [][make_file_obj_step /\ CurrentParams.derived_from_files # << >> =>
         Outcome(Resolution,
                 MatchedIds(CurrentWork.file, CurrentParams.derived_from_files),
                 Cardinality(ResolvedAncestors(CurrentWork.file,
                                               CurrentParams.derived_from_files)))]_vars

(***************************************************************************)
(* C7: the derived_from list of a candidate whose resolution succeeded     *)
(* holds no reference twice.                                               *)
(***************************************************************************)
C7_ExactlyOnce ==
    epc = "submit" =>
        \A a, b \in 1..Len(cur_obj.derived_from) :
            cur_obj.derived_from[a] = cur_obj.derived_from[b] => a = b

(***************************************************************************)
(* What accession_step does with the candidate in hand: the error the      *)
(* building or the submission of the candidate raises ("" when none), the  *)
(* candidate being passed over, and the run being stopped.                 *)
(***************************************************************************)
Failure ==
    IF epc = "file"
    THEN make_file_obj(World, CurrentWork.file, CurrentParams.file_format,
                       CurrentParams.output_type, cur_step_run,
                       CurrentParams.derived_from_files).err
    ELSE accession_file(World, cur_obj, CurrentWork.file, refused).err

PassedOver ==
    /\ epc' = "file"
    /\ file_i' = file_i + 1
    /\ step_i' = step_i
    /\ raised' = ""
    /\ portal' = portal
    /\ new_files' = new_files
    /\ accessioned_files' = accessioned_files

Stopped(e) ==
    /\ epc' = "failed"
    /\ raised' = e
    /\ portal' = portal

(***************************************************************************)
(* C8: when the catalog rejects the submission of an output as a conflict, *)
(* the run stops with the conflict error if the step spec does not flag    *)
(* the output possible_duplicate, and nothing is processed after it; if    *)
(* the flag is set the output is passed over and the loop goes on with the *)
(* next file.                                                              *)
(***************************************************************************)
C8_ConflictByFlag ==
    /\ [][accession_file_step /\ Failure = "Conflict" =>
            IF CurrentParams.possible_duplicate
            THEN PassedOver
            ELSE Stopped("Conflict")]_vars
    /\ [][epc = "failed" /\ raised = "Conflict" =>
            run' = run + 1 /\ portal' = portal /\ epc' = "step" /\ step_i' = 1]_vars

\* A run that passed over a flagged output the catalog refused, went on to
\* a later file and ended normally.
C8_Witness ==
    /\ epc = "done"
    /\ \E k \in 1..Len(afcalls) :
          /\ afcalls[k].err = "Conflict"
          /\ k < Len(afcalls)
          /\ \A n \in 1..Len(portal) : portal[n].md5sum # afcalls[k].obj.md5sum
                                          \/ n <= run_start

(***************************************************************************)
(* C9 as stated: a candidate whose resolution fails with                   *)
(* MissingAllDerivedFrom is passed over and the loop goes on; every other  *)
(* failure of building or submitting a candidate stops the run.            *)
(***************************************************************************)
C9_Original ==
    [][(make_file_obj_step \/ accession_file_step) /\ Failure # "" =>
         IF Failure = "MissingAll" THEN PassedOver /\ afcalls' = afcalls
         ELSE Stopped(Failure)]_vars

(***************************************************************************)
(* C9 amended: a candidate whose resolution fails with                     *)
(* MissingAllDerivedFrom is passed over without a submission and the loop  *)
(* goes on; a conflict on an output flagged possible_duplicate is passed   *)
(* over too; every other failure of building or submitting a candidate,    *)
(* MissingSomeDerivedFrom included, stops the run, and nothing of the run  *)
(* is processed after it.                                                  *)
(***************************************************************************)
C9_OnlyTwoSwallowed ==
    /\ [][(make_file_obj_step \/ accession_file_step) /\ Failure # "" =>
            IF Failure = "MissingAll" THEN PassedOver /\ afcalls' = afcalls
            ELSE IF Failure = "Conflict" /\ CurrentParams.possible_duplicate
            THEN PassedOver
            ELSE Stopped(Failure)]_vars
    /\ [][epc = "failed" => run' = run + 1 /\ portal' = portal /\ epc' = "step"]_vars

\* A run that passed over a candidate with no ancestor on the catalog,
\* submitted a later file and ended normally.
C9_Witness ==
    /\ epc = "done"
    /\ run = 1
    /\ Submitted >= 1
    /\ Submitted < TotalWork
    /\ \A k \in 1..Len(afcalls) : afcalls[k].err = ""

(***************************************************************************)
(* C11: search_up and search_down terminate on every task graph, cyclic    *)
(* ones included: the nested calls of a search are never deeper than the   *)
(* number of tasks and the interpreter's recursion limit is never hit.     *)
(***************************************************************************)
C11_BoundedRecursion ==
    /\ Len(sstack) <= Len(tasks)
    /\ spc # "RecursionError"

(***************************************************************************)
(* C12: a step of the graph build leaves the location, producer, hash and  *)
(* size of every artifact that exists as they are, keeps the artifact at   *)
(* its place in the file list, and only adds to its role-keys and to its   *)
(* consumers.                                                              *)
(***************************************************************************)
IsPrefix(s, t) == Len(s) <= Len(t) /\ SubSeq(t, 1, Len(s)) = s

C12_ProducerAssignedOnce ==
    [][\A k \in 1..Len(files) :
          /\ k <= Len(files')
          /\ files'[k].filename = files[k].filename
          /\ files'[k].task = files[k].task
          /\ files'[k].md5sum = files[k].md5sum
          /\ files'[k].size = files[k].size
          /\ IsPrefix(files[k].filekeys, files'[k].filekeys)
          /\ IsPrefix(files[k].used_by_tasks, files'[k].used_by_tasks)]_vars

\* A finished build in which a location made as the output of one task was
\* met again as the output of a later task, under a second role-key, and as
\* an input.
C12_Witness ==
    /\ bpc = "done"
    /\ \E f \in 1..Len(files) :
          /\ files[f].task # None
          /\ Len(files[f].filekeys) >= 2
          /\ files[f].used_by_tasks # << >>
          /\ \E A \in 1..Len(metadata) :
                A > files[f].task /\ files[f].filename \in OutLocs(A)

(***************************************************************************)
(* A call of accession_file seen as one step: the record file_at_portal    *)
(* answers for the file in hand, and the operations the call adds to the   *)
(* log of the catalog and of the content provider.                         *)
(***************************************************************************)
FoundAtPortal == file_at_portal(World, files[CurrentWork.file].filename).ret

Soft == {"deleted", "revoked"}

IssuedOps == [ k \in 1..(Len(io_log') - Len(io_log)) |-> io_log'[Len(io_log) + k].op ]

(***************************************************************************)
(* C13: when accession_file finds a record with the hash of the file whose *)
(* status is neither deleted nor revoked, it returns that record as the    *)
(* catalog holds it, raises nothing, issues a search and a get and nothing *)
(* else (no download, no create, no update), and leaves the catalog, the   *)
(* cache and the candidate as they were.                                   *)
(***************************************************************************)
C13_LiveRecordNoOp ==
    [][accession_file_call /\ FoundAtPortal # NoRecord /\ FoundAtPortal.status \notin Soft =>
          /\ cur_encode_file' = FoundAtPortal
          /\ FoundAtPortal = conn_get(World, FoundAtPortal.accession)
          /\ raised' = ""
          /\ IssuedOps = <<"search", "get">>
          /\ portal' = portal
          /\ new_files' = new_files
          /\ cur_obj' = cur_obj]_vars

\* A call on a file whose hash a released record of the catalog carries,
\* the record of another output type included.
C13_Witness ==
    /\ Len(afcalls) = 1
    /\ afcalls[1].err = ""
    /\ afcalls[1].ret.accession \in 1..run_start
    /\ afcalls[1].ret.status = "released"
    /\ afcalls[1].ret.output_type # afcalls[1].obj.output_type
    /\ new_files = << >>

(***************************************************************************)
(* Step-run records: the records of the catalog that carry a given alias,  *)
(* and the alias get_or_make_step_run builds for the step in hand.         *)
(***************************************************************************)
StepRunsWith(alias) ==
    { k \in 1..Len(portal) :
        portal[k].profile = "analysis_step_runs" /\ portal[k].alias = alias }

StepAlias ==
    lab_pi \o ":" \o steps[step_i].dcc_step_run \o "-"
           \o docker_tag(tasks[get_tasks(steps[step_i].wdl_task_name)[1]].docker_image)

(***************************************************************************)
(* C14: no two step-run records of the catalog carry the same alias, and a *)
(* call of get_or_make_step_run that returns gives the one record with the *)
(* alias of its inputs: the record that held the alias before the call,    *)
(* with the catalog unchanged, when there was one.                         *)
(***************************************************************************)
C14_StepRunIdempotent ==
    /\ [](\A k \in 1..Len(portal) :
             portal[k].profile = "analysis_step_runs" =>
                 StepRunsWith(portal[k].alias) = {k})
    /\ [][accession_step /\ epc' = "file" =>
             /\ cur_step_run'.alias = StepAlias
             /\ cur_step_run' = portal'[cur_step_run'.accession]
             /\ StepRunsWith(StepAlias) # {} =>
                   /\ cur_step_run'.accession \in StepRunsWith(StepAlias)
                   /\ portal' = portal]_vars

\* A second run whose step resolved to the step-run record the first run made.
C14_Witness ==
    /\ run = 2
    /\ epc = "file"
    /\ cur_step_run.profile = "analysis_step_runs"
    /\ cur_step_run.accession <= run_start
    /\ Len(portal) = run_start
    /\ StepRunsWith(cur_step_run.alias) = {cur_step_run.accession}

(***************************************************************************)
(* C15: the step on which a fatal error stops the run leaves every record  *)
(* of the catalog as it was, and once the run is stopped the catalog is    *)
(* not changed again and no create or update is issued: the only thing     *)
(* that follows is a new start of the program, which finds the catalog as  *)
(* the stopped run left it.                                                *)
(***************************************************************************)
C15_NoRollback ==
    /\ [][epc # "failed" /\ epc' = "failed" =>
             /\ Len(portal') >= Len(portal)
             /\ \A k \in 1..Len(portal) : portal'[k] = portal[k]]_vars
    /\ [][epc = "failed" =>
             /\ portal' = portal
             /\ run' = run + 1
             /\ run_start' = Len(portal)
             /\ io_log' = << >>]_vars

\* A run stopped by an error after it had made a file record and attached
\* a quality metric to it.
C15_Witness ==
    /\ epc = "failed"
    /\ raised # ""
    /\ \E k \in 1..Len(afcalls) :
          /\ afcalls[k].err = ""
          /\ Creates(k) = 1
          /\ afcalls[k].ret.accession > run_start
          /\ portal[afcalls[k].ret.accession] = afcalls[k].ret
          /\ \E q \in (run_start + 1)..Len(portal) :
                portal[q].quality_metric_of = afcalls[k].ret.accession

(***************************************************************************)
(* C16: when accession_file finds no record, it issues, after the search,  *)
(* one download, one create that carries the local path and one update,    *)
(* in this order; the update is addressed to the record the create made    *)
(* and sets the file's location as submitted_file_name; the record as      *)
(* updated is appended to the cache and returned.  When the create is      *)
(* refused, no update is issued and nothing is cached.                     *)
(***************************************************************************)
C16_CreateThenUpdate ==
    [][accession_file_call /\ FoundAtPortal = NoRecord =>
          /\ cur_obj' = Merge(cur_obj, [submitted_file_name |->
                                           local_path(files[CurrentWork.file].filename)])
          /\ IF raised' = ""
             THEN /\ IssuedOps = <<"search", "download", "post", "patch">>
                  /\ Len(portal') = Len(portal) + 1
                  /\ \A k \in 1..Len(portal) : portal'[k] = portal[k]
                  /\ io_log'[Len(io_log')].acc = Len(portal')
                  /\ portal'[Len(portal')] =
                        [Merge(Blank, cur_obj) EXCEPT
                            !.accession = Len(portal'),
                            !.submitted_file_name = files[CurrentWork.file].filename]
                  /\ new_files' = Append(new_files, portal'[Len(portal')])
                  /\ cur_encode_file' = portal'[Len(portal')]
             ELSE /\ IssuedOps = <<"search", "download", "post">>
                  /\ portal' = portal
                  /\ new_files' = new_files]_vars

\* A first call that made the record of a file the catalog did not hold.
C16_Witness ==
    /\ Len(afcalls) = 1
    /\ afcalls[1].err = ""
    /\ Creates(1) = 1
    /\ Updates(1) = 1
    /\ new_files = << afcalls[1].ret >>
    /\ afcalls[1].ret.submitted_file_name = files[afcalls[1].file].filename
    /\ cur_obj.submitted_file_name = local_path(files[afcalls[1].file].filename)

(***************************************************************************)
(* C17: when accession_file finds a record whose status is deleted or      *)
(* revoked, it issues no download and no create and, after the search and  *)
(* the get, exactly one update, addressed to that record, that carries the *)
(* candidate's fields, the file's location as submitted_file_name and the  *)
(* current user as submitted_by; no other record changes; the record as    *)
(* updated is appended to the cache and returned.                          *)
(***************************************************************************)
Takeover ==
    Merge(cur_obj, [submitted_file_name |-> files[CurrentWork.file].filename,
                    submitted_by |-> current_user])

C17_SoftDeletedUpdated ==
    [][accession_file_call /\ FoundAtPortal # NoRecord /\ FoundAtPortal.status \in Soft =>
          /\ IssuedOps = <<"search", "get", "patch">>
          /\ io_log'[Len(io_log')].acc = FoundAtPortal.accession
          /\ Len(portal') = Len(portal)
          /\ \A k \in 1..Len(portal) :
                portal'[k] = IF k = FoundAtPortal.accession
                             THEN [Merge(portal[k], Takeover) EXCEPT !.accession = k]
                             ELSE portal[k]
          /\ new_files' = Append(new_files, portal'[FoundAtPortal.accession])
          /\ cur_encode_file' = portal'[FoundAtPortal.accession]
          /\ cur_obj' = Takeover
          /\ raised' = ""]_vars

\* A call that took over a revoked or deleted record submitted by another
\* user.
C17_Witness ==
    /\ Len(afcalls) = 1
    /\ afcalls[1].err = ""
    /\ Creates(1) = 0
    /\ Updates(1) = 1
    /\ afcalls[1].ret.accession <= run_start
    /\ afcalls[1].ret.submitted_by = current_user
    /\ afcalls[1].ret.status = "uploading"
    /\ new_files = << afcalls[1].ret >>
    /\ portal[afcalls[1].ret.accession] = afcalls[1].ret

(***************************************************************************)
(* One ancestor spec of the candidate in hand: what get_derived_from       *)
(* returns for it, and the records among the catalog's answers and the     *)
(* cache that carry the hash of one of its ancestor artifacts and, when    *)
(* the spec names an output type, that output type.                        *)
(***************************************************************************)
PerSpec(a) ==
    get_derived_from(World, CurrentWork.file, a.derived_from_task, a.derived_from_filekey,
                     a.derived_from_output_type, a.derived_from_inputs)

SameHash(file, a) ==
    { r \in Answers(AncestorFiles(file, a)) :
        \E g \in AncestorFiles(file, a) : files[g].md5sum = r.md5sum }

OfType(file, a) ==
    { r \in SameHash(file, a) :
        a.derived_from_output_type = "" \/ r.output_type = a.derived_from_output_type }

(***************************************************************************)
(* C18: for every ancestor spec of a candidate, get_derived_from returns   *)
(* references only of records that carry the hash of an ancestor artifact  *)
(* and, when the spec names an output type, that output type; it returns   *)
(* the reference of every such record; and it fails with                   *)
(* MissingAllDerivedFrom exactly when there is no such record.  Without an *)
(* output type in the spec, the records are those of equal hash.           *)
(***************************************************************************)
C18_Discriminator ==
    [][make_file_obj_step =>
          \A n \in 1..Len(CurrentParams.derived_from_files) :
             \A a \in { CurrentParams.derived_from_files[n] } :
                /\ PerSpec(a).err = "" =>
                      Range(PerSpec(a).ret) =
                          { reference(r.accession) : r \in OfType(CurrentWork.file, a) }
                /\ PerSpec(a).err = "MissingAll" <=> OfType(CurrentWork.file, a) = {}
                /\ a.derived_from_output_type = "" =>
                      OfType(CurrentWork.file, a) = SameHash(CurrentWork.file, a)]_vars

\* The candidate for y.bam was passed over: its ancestor spec asks for
\* output type optimal, and the record the catalog answered for x.bam has
\* the hash of x.bam and output type alignments.
C18_Witness ==
    /\ epc = "file"
    /\ step_i <= Len(steps)
    /\ steps[step_i].wdl_task_name = "dedup"
    /\ steps[step_i].wdl_files[1].derived_from_files =
          << Ancestor("align", "bam", "optimal", FALSE) >>
    /\ file_i = 2
    /\ raised = ""
    /\ \A k \in 1..Len(afcalls) : files[afcalls[k].file].filename # "gs://b/y.bam"
    /\ io_log # << >>
    /\ io_log[Len(io_log)].op = "get"
    /\ portal[io_log[Len(io_log)].acc].md5sum = "mx"
    /\ portal[io_log[Len(io_log)].acc].output_type = "alignments"

(***************************************************************************)
(* The order of the submissions of a step as the declared nesting gives    *)
(* it: the visits <<task, role-key, place in the task's output list>> of   *)
(* the step, compared first by the task's place in the graph, then by the  *)
(* role-key's place in the step spec, then by the place in the output      *)
(* list.                                                                   *)
(***************************************************************************)
Visits(step) ==
    { v \in (1..Len(tasks)) \X (1..Len(step.wdl_files)) \X (1..Len(files)) :
        /\ tasks[v[1]].task_name = step.wdl_task_name
        /\ v[3] <= Len(tasks[v[1]].output_files)
        /\ InSeq(step.wdl_files[v[2]].filekey,
                 files[tasks[v[1]].output_files[v[3]]].filekeys) }

Before(u, v) ==
    \/ u[1] < v[1]
    \/ u[1] = v[1] /\ u[2] < v[2]
    \/ u[1] = v[1] /\ u[2] = v[2] /\ u[3] < v[3]

NthVisit(step, n) ==
    CHOOSE v \in Visits(step) :
        Cardinality({ u \in Visits(step) : Before(u, v) }) = n - 1

Place == <<step_i, IF epc = "step" THEN 0 ELSE file_i>>

(***************************************************************************)
(* C19: the files of a step are visited in the declared nesting order      *)
(* (tasks in graph order, role-keys in spec order, output artifacts in     *)
(* list order) and the steps in the order of the step-spec document; a     *)
(* candidate is built and submitted for the file of the visit in hand; a   *)
(* quality metric is attached to the record of the last submission, before *)
(* the visit moves on; and within a run the visit in hand never goes back. *)
(***************************************************************************)
C19_NestingOrder ==
    /\ [](epc \in {"file", "submit", "qc"} =>
             /\ Len(work_list(steps[step_i])) = Cardinality(Visits(steps[step_i]))
             /\ file_i <= Len(work_list(steps[step_i])) =>
                   /\ CurrentWork.task = NthVisit(steps[step_i], file_i)[1]
                   /\ CurrentWork.params = NthVisit(steps[step_i], file_i)[2]
                   /\ CurrentWork.file =
                         tasks[CurrentWork.task].output_files[NthVisit(steps[step_i], file_i)[3]])
    /\ [][make_file_obj_step /\ epc' = "submit" =>
             cur_obj'.md5sum = files[CurrentWork.file].md5sum /\ Place' = Place]_vars
    /\ [][accession_file_step =>
             /\ afcalls'[Len(afcalls')].file = CurrentWork.file
             /\ afcalls'[Len(afcalls')].obj = cur_obj]_vars
    /\ [][attach_qc /\ Len(portal') > Len(portal) =>
             /\ portal'[Len(portal')].quality_metric_of = afcalls[Len(afcalls)].ret.accession
             /\ afcalls[Len(afcalls)].file = CurrentWork.file
             /\ Place' = Place]_vars
    /\ [][run' = run =>
             \/ Place'[1] > Place[1]
             \/ Place'[1] = Place[1] /\ Place'[2] >= Place[2]]_vars

\* The step over two calls of align ended: y.bam (bam of the first call),
\* x.bam (raw_bam of the first call, listed before y.bam in its outputs)
\* and w.bam (bam of the second call) were submitted in this order.
C19_Witness ==
    /\ epc = "done"
    /\ Len(afcalls) = 3
    /\ files[afcalls[1].file].filename = "gs://b/y.bam"
    /\ files[afcalls[2].file].filename = "gs://b/x.bam"
    /\ files[afcalls[3].file].filename = "gs://b/w.bam"
    /\ \A k \in 1..3 : afcalls[k].err = "" /\ Creates(k) = 1
    /\ afcalls[1].ret.accession < afcalls[2].ret.accession
    /\ afcalls[2].ret.accession < afcalls[3].ret.accession

(***************************************************************************)
(* The backend calls of a process: those of the graph build come first,    *)
(* those of the engine after them.                                         *)
(***************************************************************************)
Asked(kind, L, upto) == Cardinality({ i \in 1..upto : lookups[i] = <<kind, L>> })

BuildCalls == 2 * Cardinality(ReferencedLocs)

Searches == Cardinality({ i \in 1..Len(io_log) : io_log[i].op = "search" })

\* C20 as stated: the hash and the size of each location are asked exactly
\* once by the process.
C20_Original ==
    \A L \in ReferencedLocs :
        /\ Asked("md5sum", L, Len(lookups)) = 1
        /\ Asked("size", L, Len(lookups)) = 1

(***************************************************************************)
(* C20: the graph build asks the backend for the hash and the size of each *)
(* distinct location exactly once, however often the location is           *)
(* referenced; after the build the size is never asked again, and the hash *)
(* is asked once more for every search of the catalog and for nothing      *)
(* else.                                                                   *)
(***************************************************************************)
C20_OncePerLocationInBuild ==
    /\ Len(lookups) = BuildCalls + Searches
    /\ \A L \in ReferencedLocs :
          /\ Asked("md5sum", L, BuildCalls) = 1
          /\ Asked("size", L, BuildCalls) = 1
          /\ Asked("size", L, Len(lookups)) = 1
    /\ \A i \in (BuildCalls + 1)..Len(lookups) :
          lookups[i][1] = "md5sum" /\ lookups[i][2] \in ReferencedLocs

\* x.bam is the output of one task and the input of another, was hashed and
\* sized once by the build, and hashed again by the engine's catalog lookups.
C20_Witness ==
    /\ epc = "done"
    /\ \E k \in 1..Len(files) :
          /\ files[k].filename = "gs://b/x.bam"
          /\ files[k].task # None
          /\ files[k].used_by_tasks # << >>
    /\ Asked("md5sum", "gs://b/x.bam", BuildCalls) = 1
    /\ Asked("size", "gs://b/x.bam", Len(lookups)) = 1
    /\ Asked("md5sum", "gs://b/x.bam", Len(lookups)) >= 3

(***************************************************************************)
(* The quality-metric loop of accession_step.                              *)
(***************************************************************************)
LastCall == afcalls[Len(afcalls)]

\* The record conn.get answers with holds a metric of the type.
Attached(acc, type) == type \in conn_get(World, acc).quality_metrics

Declared == CurrentParams.quality_metrics

(***************************************************************************)
(* C21: the quality-metric loop is entered only from an accession_file     *)
(* call that returned a record, and never after a candidate that was       *)
(* skipped or failed; the loop calls the plugin of each declared metric    *)
(* once, in the declared order, after a get of the record of that call;    *)
(* and the plugin creates a metric exactly when the record fetched at that *)
(* moment holds no metric of its type and its input is there, and          *)
(* otherwise creates nothing.                                              *)
(***************************************************************************)
C21_QcOnlyAfterSubmission ==
    /\ [](epc = "qc" =>
             /\ afcalls # << >>
             /\ LastCall.err = ""
             /\ LastCall.ret # NoRecord
             /\ LastCall.file = CurrentWork.file
             /\ cur_encode_file = LastCall.ret
             /\ qc_i \in 1..(Len(Declared) + 1))
    /\ [][epc' = "qc" /\ epc # "qc" =>
             /\ accession_file_step
             /\ afcalls'[Len(afcalls')].err = ""
             /\ qc_i' = 1]_vars
    /\ [][epc = "qc" /\ epc' # "qc" /\ raised' = "" =>
             /\ file_accessioned
             /\ qc_i = Len(Declared) + 1]_vars
    /\ [][qc_i' # qc_i /\ epc = "qc" /\ epc' = "qc" => attach_qc /\ qc_i' = qc_i + 1]_vars
    /\ [][Len(portal') > Len(portal) /\ portal'[Len(portal')].qc_type # "" => attach_qc]_vars
    /\ [][attach_qc /\ Declared[qc_i] \in DOMAIN QC_MAP =>
             /\ IssuedOps # << >>
             /\ io_log'[Len(io_log) + 1] = Call("get", LastCall.ret.accession, "")
             /\ IF Attached(LastCall.ret.accession, "SamtoolsFlagstatsQualityMetric")
                THEN /\ portal' = portal
                     /\ IssuedOps = <<"get">>
                     /\ raised' = ""
                ELSE IF get_files("qc_json") = << >>
                THEN portal' = portal /\ raised' = "IndexError"
                ELSE /\ Len(portal') = Len(portal) + 1
                     /\ portal'[Len(portal')].qc_type = "SamtoolsFlagstatsQualityMetric"
                     /\ portal'[Len(portal')].quality_metric_of = LastCall.ret.accession
                     /\ SubSeq(portal', 1, Len(portal)) = portal]_vars

\* The step declares the flagstat metric twice for x.bam: the run ended, the
\* file record was created, and it carries one metric, made by the first of
\* the two plugin calls.
C21_Witness ==
    /\ epc = "done"
    /\ Len(steps) = 1
    /\ Len(steps[1].wdl_files[1].quality_metrics) = 2
    /\ Len(afcalls) = 1
    /\ afcalls[1].err = ""
    /\ Creates(1) = 1
    /\ Cardinality({ k \in 1..Len(portal) :
           /\ portal[k].qc_type = "SamtoolsFlagstatsQualityMetric"
           /\ portal[k].quality_metric_of = afcalls[1].ret.accession }) = 1
    /\ Cardinality({ i \in 1..Len(io_log) :
           io_log[i] = Call("get", afcalls[1].ret.accession, "") }) = 2

(***************************************************************************)
(* The reference set of an upward search, from the graph alone: the tasks  *)
(* reached from a task along producer edges of input files, and the files  *)
(* of the named ones among them that carry the role-key.                   *)
(***************************************************************************)
Producers(t) == { files[f].task : f \in Range(tasks[t].input_files) } \ {None}

RECURSIVE UpClosure(_, _)
UpClosure(S, n) ==
    IF n = 0 THEN S ELSE UpClosure(S \cup UNION { Producers(t) : t \in S }, n - 1)

\* The tasks reached from t by one producer edge or more.
Above(t) == UpClosure(Producers(t), Len(tasks))

AcyclicUp == \A t \in 1..Len(tasks) : t \notin Above(t)

UpReference(from_task, name, key, via_inputs) ==
    UNION { { f \in Range(IF via_inputs THEN tasks[t].input_files ELSE tasks[t].output_files) :
                 InSeq(key, files[f].filekeys) } :
            t \in { u \in {from_task} \cup Above(from_task) : tasks[u].task_name = name } }

(***************************************************************************)
(* C22: on a graph without a cycle of producer edges, the files an upward  *)
(* search has yielded are always among the reference set, and a search     *)
(* that has returned has yielded exactly the reference set.                *)
(***************************************************************************)
C22_SearchUpReference ==
    (sargs.dir = "up" /\ AcyclicUp) =>
        /\ spc \notin {"RecursionError", "TypeError"}
        /\ Range(syielded) \subseteq
              UpReference(sargs.task, sargs.task_name, sargs.filekey, sargs.inputs)
        /\ spc = "done" =>
              Range(syielded) =
                 UpReference(sargs.task, sargs.task_name, sargs.filekey, sargs.inputs)

\* A returned upward search from a task of another name than the one asked
\* for, with two producers above it, one of them the named task whose file
\* was yielded, the path beyond ending at a raw input.
C22_Witness ==
    /\ spc = "done"
    /\ sargs.dir = "up"
    /\ AcyclicUp
    /\ tasks[sargs.task].task_name # sargs.task_name
    /\ Cardinality(Producers(sargs.task)) = 2
    /\ syielded # << >>
    /\ \E t \in Above(sargs.task) :
          /\ tasks[t].task_name # sargs.task_name
          /\ \E f \in Range(tasks[t].input_files) : files[f].task = None

(***************************************************************************)
(* C23: a downward search from a task that has no output files, or whose   *)
(* output files have no consumers, raises no error, and once it has        *)
(* returned it has yielded nothing but the matching output files of that   *)
(* task.                                                                   *)
(***************************************************************************)
C23_LeafSearchDownCompletes ==
    (/\ sargs.dir = "down"
     /\ \A f \in Range(tasks[sargs.task].output_files) : files[f].used_by_tasks = << >>) =>
        /\ spc # "TypeError"
        /\ spc = "done" =>
              syielded = matching_files("down", sargs.task, sargs.task_name,
                                        sargs.filekey, FALSE)

(***************************************************************************)
(* C24: when make_tasks has returned, the producer of an artifact is None  *)
(* exactly when no task lists its location in its outputs; every artifact  *)
(* of a task's output list, which are the artifacts accession_step takes   *)
(* and get_derived_from starts the upward search from, has a producer, and *)
(* the producer has the artifact in its own output list.                   *)
(***************************************************************************)
C24_ProducerNullIffNoOutput ==
    bpc = "done" =>
        /\ \A k \in 1..Len(files) :
              files[k].task = None <=>
                 \A t \in 1..Len(metadata) : files[k].filename \notin OutLocs(t)
        /\ \A t \in 1..Len(tasks) : \A f \in Range(tasks[t].output_files) :
              /\ files[f].task # None
              /\ files[f].task \in 1..Len(tasks)
              /\ f \in Range(tasks[files[f].task].output_files)

\* The build ended with a raw input (no producer) and with an artifact that
\* two tasks list among their outputs and a task lists among its inputs.
C24_Witness ==
    /\ bpc = "done"
    /\ Len(tasks) = 2
    /\ \E k \in 1..Len(files) : files[k].task = None /\ files[k].used_by_tasks # << >>
    /\ \E k \in 1..Len(files) :
          /\ k \in Range(tasks[1].output_files) \cap Range(tasks[2].output_files)
          /\ files[k].used_by_tasks # << >>
          /\ files[k].task = 1

(***************************************************************************)
(* The calls of accession_file of the run that made or took over a record. *)
(***************************************************************************)
Made(k) == afcalls[k].err = "" /\ Creates(k) = 1 /\ Updates(k) = 1

TookOver(k) == afcalls[k].err = "" /\ Creates(k) = 0 /\ Updates(k) = 1

(***************************************************************************)
(* C25: within a run the cache self.new_files only grows at its end, one   *)
(* record at a time and only by a call of accession_file that raised       *)
(* nothing; its entries are, in order, the records returned by the calls   *)
(* of the run that created and then updated a record or updated a deleted  *)
(* or revoked one; a call that raised, a candidate that was passed over    *)
(* and the resolution of derived_from leave it as it is; and a new start   *)
(* of the program begins with an empty cache.                              *)
(***************************************************************************)
C25_CacheOnlyGrows ==
    /\ [](/\ \A n \in 1..Len(new_files) :
                \E k \in 1..Len(afcalls) :
                   /\ Made(k) \/ TookOver(k)
                   /\ afcalls[k].ret = new_files[n]
                   /\ Cardinality({ j \in 1..k : Made(j) \/ TookOver(j) }) = n
          /\ Len(new_files) =
                Cardinality({ k \in 1..Len(afcalls) : Made(k) \/ TookOver(k) }))
    /\ [][run' = run => IsPrefix(new_files, new_files')]_vars
    /\ [][run' = run /\ new_files' # new_files =>
             /\ accession_file_step
             /\ afcalls'[Len(afcalls')].err = ""
             /\ new_files' = Append(new_files, afcalls'[Len(afcalls')].ret)]_vars
    /\ [][accession_file_step /\ afcalls'[Len(afcalls')].err # "" =>
             new_files' = new_files]_vars
    /\ [][make_file_obj_step => new_files' = new_files]_vars
    /\ [][run' # run => new_files' = << >>]_vars

\* A run that ended with two records in the cache, one created and one taken
\* over from a deleted or revoked record, after a step that resolved its
\* derived_from from the cache.
C25_Witness ==
    /\ epc = "done"
    /\ Len(new_files) = 2
    /\ \E k \in 1..Len(afcalls) : Made(k)
    /\ \E k \in 1..Len(afcalls) : TookOver(k)
    /\ \E k \in 1..Len(afcalls) :
          /\ afcalls[k].obj.derived_from # << >>
          /\ \E n \in 1..Len(new_files) :
                reference(new_files[n].accession) \in Range(afcalls[k].obj.derived_from)

====
